---------------------------- MODULE Spec2Model ----------------------------
(***************************************************************************)
(* certwarden-client: the in-memory certificate store (SafeCert), the      *)
(* disk reconciliation pass (updateCertFilesAndRestartContainers), and the *)
(* job scheduling of main.go / https_server_route.go.                      *)
(*                                                                         *)
(* The specifications share the variables:                                 *)
(*   SpecStore      sequences of SafeCert.Update / Read / handshake calls  *)
(*   SpecReconcile  one reconciliation pass on every store/disk/config     *)
(*   SpecContainers one pass and its container restarts                    *)
(*   SpecStartup    main() up to the https server, against every server    *)
(*   Spec           the running process: startup, pushes, scheduled jobs   *)
(*   SpecShutdown   the running process with the shutdown signal           *)
(*   SpecWindow     a write job against the file update window             *)
(*   SpecPush       the push endpoint, request by request                  *)
(***************************************************************************)
EXTENDS Integers, Sequences, FiniteSets, TLC

(***************************************************************************)
(* PEM material.  A PEM blob is modelled by a name; what the parsers of    *)
(* the Go standard library make of it is given by the operators below.     *)
(*   ""        the nil / empty byte slice                                  *)
(*   k1, k2    well-formed private keys                                    *)
(*   kBad      bytes that do not parse as a private key                    *)
(*   c1, c2    certificates for k1, k2, not expired                        *)
(*   cExp      a certificate for k1 whose NotAfter has passed              *)
(*   cBad      a PEM block whose DER bytes are no certificate              *)
(*   noPem     bytes holding no PEM block at all                           *)
(***************************************************************************)
NoPem == ""

KeyPems == {"k1", "k2", "kBad"}

CertPems == {"c1", "c2", "cExp", "cBad", "noPem"}

\* pem.Decode finds a block
HasPemBlock(c) == c \in {"c1", "c2", "cExp", "cBad"}

\* x509.ParseCertificate succeeds on the first block
ParsesAsCert(c) == c \in {"c1", "c2", "cExp"}

\* time.Now().After(cert.NotAfter)
Expired(c) == c = "cExp"

\* the key the certificate was issued for
KeyOf(c) == IF c = "c2" THEN "k2" ELSE "k1"

\* tls.X509KeyPair(certPem, keyPem) returns no error
X509KeyPair(certPem, keyPem) ==
    /\ ParsesAsCert(certPem)
    /\ keyPem \in {"k1", "k2"}
    /\ KeyOf(certPem) = keyPem

\* the parsed tls.Certificate of a pair; NoCert is the nil pointer
NoCert == <<"nil", "nil">>

TlsCertOf(keyPem, certPem) == <<keyPem, certPem>>

(***************************************************************************)
(* Files.  key.pem and certchain.pem hold a PEM name, or are absent, or    *)
(* exist but cannot be read.  A PKCS12 file is absent, or holds the pair   *)
(* it was encoded from, or holds foreign bytes.                            *)
(***************************************************************************)
Absent == "absent"

Unreadable == "unreadable"

PfxAbsent == <<"absent", "absent">>

PfxForeign == <<"foreign", "foreign">>

Files == {"key", "cert", "pfx", "legacy"}

VARIABLES
    sc,                 \* SafeCert: [keyPem, certPem, cert]
    disk,               \* [key, cert, pfx, legacy]: the storage directory
    cfg,                \* [PfxCreate, PfxLegacyCreate, containers]
    upd,                \* the last SafeCert.Update call and what it returned
    rd,                 \* what the last Read() / handshake callback returned
    pass,               \* the last completed reconciliation pass
    pendingJobCancel,   \* app.pendingJobCancel: 0 (nil) or the job whose cancel it is
    jobs,               \* the scheduled-job goroutines, in order of their go statement
    handlers,           \* the push handlers' file-update goroutines
    mainpc,             \* where main() is
    inWindow,           \* whether the clock is inside the file update window
    crashed,            \* a goroutine panicked: the process is gone
    window,             \* app.cfg.FileUpdate*: [days, start, end, includesMidnight]
    clock,              \* time.Now(): [day, hr, min, half]
    wjob,               \* one write job against the clock: what it computed and when it ran
    req,                \* the request postKeyAndCert is serving
    resp,               \* what postKeyAndCert answered and did
    remote,             \* what the Cert Warden server answers to the two downloads
    docker,             \* the calls of the docker API made by the last pass
    firstPass           \* the pass before the last one

\* the state of the window arithmetic, of the push endpoint, of the server and
\* of the docker daemon
otherVars == <<window, clock, wjob, req, resp, remote, docker, firstPass>>

vars == <<sc, disk, cfg, upd, rd, pass, pendingJobCancel, jobs, handlers,
          mainpc, inWindow, crashed, otherVars>>

(***************************************************************************)
(* SafeCert (update.go)                                                    *)
(***************************************************************************)
NewSafeCert == [keyPem |-> NoPem, certPem |-> NoPem, cert |-> NoCert]

SafeCert_Read(s) == <<s.keyPem, s.certPem>>

SafeCert_TlsCertFunc(s) == s.cert

\* the mutant of Update that drops the parsed certificate when the pair is rejected
SafeCert_Update_ClearsOnError(s, keyPem, certPem) ==
    LET s1 == [s EXCEPT !.keyPem = keyPem, !.certPem = certPem]
    IN  IF s.keyPem = keyPem /\ s.certPem = certPem
        THEN [sc |-> s, updated |-> FALSE, err |-> FALSE]
        ELSE IF ~X509KeyPair(certPem, keyPem)
        THEN [sc |-> [s1 EXCEPT !.cert = NoCert], updated |-> FALSE, err |-> TRUE]
        ELSE [sc |-> [s1 EXCEPT !.cert = TlsCertOf(keyPem, certPem)],
              updated |-> TRUE, err |-> FALSE]

\* the mutant of Update that replaces the key and leaves the cert
SafeCert_Update_KeyOnly(s, keyPem, certPem) ==
    [sc |-> [s EXCEPT !.keyPem = keyPem], updated |-> TRUE, err |-> FALSE]

\* the mutant of Update that lost its "no update to do" early return
SafeCert_Update_NoEarlyReturn(s, keyPem, certPem) ==
    LET s1 == [s EXCEPT !.keyPem = keyPem, !.certPem = certPem]
    IN  IF ~X509KeyPair(certPem, keyPem)
        THEN [sc |-> s1, updated |-> FALSE, err |-> TRUE]
        ELSE [sc |-> [s1 EXCEPT !.cert = TlsCertOf(keyPem, certPem)],
              updated |-> TRUE, err |-> FALSE]

\* Update: the store afterwards, and the (updated, err) it returns
SafeCert_Update(s, keyPem, certPem) ==
    LET keyUpdated  == s.keyPem # keyPem
        certUpdated == s.certPem # certPem
        s1 == [s EXCEPT !.keyPem = keyPem, !.certPem = certPem]
    IN  IF ~keyUpdated /\ ~certUpdated
        THEN [sc |-> s, updated |-> FALSE, err |-> FALSE]
        ELSE IF ~X509KeyPair(certPem, keyPem)
        THEN [sc |-> s1, updated |-> FALSE, err |-> TRUE]
        ELSE [sc |-> [s1 EXCEPT !.cert = TlsCertOf(keyPem, certPem)],
              updated |-> TRUE, err |-> FALSE]

\* the mutant that lost the check of NotAfter
HasValidTLSCertificate_NoExpiryCheck(s) == s.cert # NoCert

\* the mutant that lost the check of the nil certificate
HasValidTLSCertificate_NoNilCheck(s) == ~Expired(s.cert[2])

HasValidTLSCertificate(s) ==
    /\ s.cert # NoCert
    /\ ~Expired(s.cert[2])

NoDisk == [key |-> Absent, cert |-> Absent, pfx |-> PfxAbsent, legacy |-> PfxAbsent]

NoUpdate ==
    [n |-> 0, pre |-> NewSafeCert, preDisk |-> NoDisk, keyPem |-> NoPem, certPem |-> NoPem,
     prevKeyPem |-> NoPem, prevCertPem |-> NoPem, updated |-> FALSE, err |-> FALSE]

\* the record of one Update call: n is 0 before the first call, 1 after it, 2 from
\* the second on; prevKeyPem/prevCertPem are the arguments of the call before
UpdateRecord(keyPem, certPem, r) ==
    [n |-> IF upd.n < 2 THEN upd.n + 1 ELSE 2,
     pre |-> sc, preDisk |-> disk, keyPem |-> keyPem, certPem |-> certPem,
     prevKeyPem |-> upd.keyPem, prevCertPem |-> upd.certPem,
     updated |-> r.updated, err |-> r.err]

(***************************************************************************)
(* updateCertFilesAndRestartContainers (update_common.go)                  *)
(*                                                                         *)
(* d is the storage directory as the pass finds it, c the configuration,   *)
(* keyPemApp/certPemApp what app.tlsCert.Read() returned, and fails the    *)
(* set of files whose os.WriteFile (for a PKCS12 file: its encoding or its *)
(* os.WriteFile) returns an error in this pass.  A failed write leaves the *)
(* file as it was.                                                         *)
(***************************************************************************)
\* os.Stat finds key.pem and os.ReadFile reads it
keyFileExists(d) == d.key # Absent /\ d.key # Unreadable

\* the mutant that takes every readable key.pem for changed
keyFileUpdated_Always(d, keyPemApp) == keyFileExists(d)

keyFileUpdated(d, keyPemApp) == keyFileExists(d) /\ d.key # keyPemApp

\* certchain.pem was read and differs from the app's cert
certFileUpdated(d, certPemApp) ==
    d.cert # Absent /\ d.cert # Unreadable /\ d.cert # certPemApp

\* pem.Decode returned a nil block and cert.Bytes dereferences it
certDecodePanics(d, certPemApp) ==
    certFileUpdated(d, certPemApp) /\ ~HasPemBlock(d.cert)

\* the mutant that trusts any readable certchain.pem to exist
certFileExists_NoExpiryCheck(d, certPemApp) ==
    d.cert # Absent /\ d.cert # Unreadable

certFileExists(d, certPemApp) ==
    /\ d.cert # Absent
    /\ d.cert # Unreadable
    /\ certFileUpdated(d, certPemApp) => (ParsesAsCert(d.cert) /\ ~Expired(d.cert))

\* the mutant that looks into the PKCS12 file
modernPfxFileExists_Verified(d) == d.pfx \notin {PfxAbsent, PfxForeign}

modernPfxFileExists(d) == d.pfx # PfxAbsent

legacyPfxFileExists(d) == d.legacy # PfxAbsent

\* the mutant that counts only the files os.Stat does not find
anyFileMissing_StatOnly(d, c, keyPemApp, certPemApp) ==
    \/ d.key = Absent
    \/ d.cert = Absent
    \/ (c.PfxCreate /\ ~modernPfxFileExists(d))
    \/ (c.PfxLegacyCreate /\ ~legacyPfxFileExists(d))

anyFileMissing(d, c, keyPemApp, certPemApp) ==
    \/ ~keyFileExists(d)
    \/ ~certFileExists(d, certPemApp)
    \/ (c.PfxCreate /\ ~modernPfxFileExists(d))
    \/ (c.PfxLegacyCreate /\ ~legacyPfxFileExists(d))

keyOrCertFileUpdated(d, keyPemApp, certPemApp) ==
    keyFileUpdated(d, keyPemApp) \/ certFileUpdated(d, certPemApp)

\* the mutant that never rewrites a file that exists
WriteDecision_OnlyMissing(exists, updated, onlyIfMissing, anyMissing) == ~exists

\* the mutant that rewrites stale files whenever it is called
WriteDecision_IgnoreOnlyIfMissing(exists, updated, onlyIfMissing, anyMissing) ==
    ~exists \/ updated

\* the condition of each of the four write blocks
WriteDecision(exists, updated, onlyIfMissing, anyMissing) ==
    ~exists \/ (updated /\ (~onlyIfMissing \/ anyMissing))

\* the files whose write block is entered
FilesToWrite(d, c, keyPemApp, certPemApp, onlyIfMissing) ==
    LET anyMissing == anyFileMissing(d, c, keyPemApp, certPemApp)
        pemUpdated == keyOrCertFileUpdated(d, keyPemApp, certPemApp)
    IN  {f \in Files :
            \/ f = "key" /\ WriteDecision(keyFileExists(d), keyFileUpdated(d, keyPemApp),
                                           onlyIfMissing, anyMissing)
            \/ f = "cert" /\ WriteDecision(certFileExists(d, certPemApp),
                                            certFileUpdated(d, certPemApp),
                                            onlyIfMissing, anyMissing)
            \/ f = "pfx" /\ c.PfxCreate
                         /\ WriteDecision(modernPfxFileExists(d), pemUpdated,
                                          onlyIfMissing, anyMissing)
            \/ f = "legacy" /\ c.PfxLegacyCreate
                            /\ WriteDecision(legacyPfxFileExists(d), pemUpdated,
                                             onlyIfMissing, anyMissing)}

\* makeModernPfx / makeLegacyPfx return an error: keyPemToKey or certPemToCerts fails
makePfxFails(keyPem, certPem) ==
    keyPem \notin {"k1", "k2"} \/ ~ParsesAsCert(certPem)

\* the files of the pass whose write block ends in failedAnyWrite = true
FilesFailed(toWrite, keyPemApp, certPemApp, fails) ==
    {f \in toWrite :
        \/ f \in fails
        \/ f \in {"pfx", "legacy"} /\ makePfxFails(keyPemApp, certPemApp)}

\* the mutant that forgets the failed writes
diskNeedsUpdate_NoFailure(pemUpdated, wroteAnyFiles, failedAnyWrite) ==
    pemUpdated /\ ~wroteAnyFiles

\* the mutant that reports a stale disk only when a write failed
diskNeedsUpdate_FailedOnly(pemUpdated, wroteAnyFiles, failedAnyWrite) ==
    failedAnyWrite

diskNeedsUpdate(pemUpdated, wroteAnyFiles, failedAnyWrite) ==
    (pemUpdated /\ ~wroteAnyFiles) \/ failedAnyWrite

\* the mutant that restarts the containers after every pass
ContainerActions_Always(c, wroteAnyFiles) == c.containers

\* how many containers restartOrStopDockerContainers acts on in the pass
ContainerActions(c, wroteAnyFiles) ==
    IF c.containers > 0 /\ wroteAnyFiles THEN c.containers ELSE 0

DiskAfter(d, wrote, keyPemApp, certPemApp) ==
    [key    |-> IF "key" \in wrote THEN keyPemApp ELSE d.key,
     cert   |-> IF "cert" \in wrote THEN certPemApp ELSE d.cert,
     pfx    |-> IF "pfx" \in wrote THEN <<keyPemApp, certPemApp>> ELSE d.pfx,
     legacy |-> IF "legacy" \in wrote THEN <<keyPemApp, certPemApp>> ELSE d.legacy]

\* one whole pass: what it did and what it returned
updateCertFilesAndRestartContainers(d, c, keyPemApp, certPemApp, onlyIfMissing, fails) ==
    LET toWrite == FilesToWrite(d, c, keyPemApp, certPemApp, onlyIfMissing)
        failed  == FilesFailed(toWrite, keyPemApp, certPemApp, fails)
        wrote   == toWrite \ failed
        panics  == certDecodePanics(d, certPemApp)
    IN  [panicked   |-> panics,
         onlyIfMissing |-> onlyIfMissing,
         keyPemApp  |-> keyPemApp,
         certPemApp |-> certPemApp,
         pre        |-> d,
         attempted  |-> IF panics THEN {} ELSE toWrite,
         failed     |-> IF panics THEN {} ELSE failed,
         wrote      |-> IF panics THEN {} ELSE wrote,
         post       |-> IF panics THEN d ELSE DiskAfter(d, wrote, keyPemApp, certPemApp),
         actions    |-> IF panics THEN 0 ELSE ContainerActions(c, wrote # {}),
         diskNeedsUpdate |->
            IF panics THEN FALSE
            ELSE diskNeedsUpdate(keyOrCertFileUpdated(d, keyPemApp, certPemApp),
                                 wrote # {}, failed # {})]

NoPass ==
    [n |-> 0, panicked |-> FALSE, onlyIfMissing |-> FALSE, keyPemApp |-> NoPem,
     certPemApp |-> NoPem, pre |-> NoDisk, attempted |-> {}, failed |-> {},
     wrote |-> {}, post |-> NoDisk, actions |-> 0, diskNeedsUpdate |-> FALSE,
     fails |-> {}]

\* the record of a completed pass r, the n-th of the behaviour (n saturates at 2)
PassRecord(r, fails) ==
    [n |-> IF pass.n < 2 THEN pass.n + 1 ELSE 2, panicked |-> r.panicked,
     onlyIfMissing |-> r.onlyIfMissing, keyPemApp |-> r.keyPemApp,
     certPemApp |-> r.certPemApp, pre |-> r.pre, attempted |-> r.attempted,
     failed |-> r.failed, wrote |-> r.wrote, post |-> r.post, actions |-> r.actions,
     diskNeedsUpdate |-> r.diskNeedsUpdate, fails |-> fails]

(***************************************************************************)
(* What every specification starts from outside its own part of the state  *)
(***************************************************************************)
NoRead == [op |-> "none", keyPem |-> NoPem, certPem |-> NoPem, cert |-> NoCert,
           valid |-> FALSE]

NoCfg == [PfxCreate |-> FALSE, PfxLegacyCreate |-> FALSE, containers |-> 0,
          DockerStopOnly |-> FALSE]

\* no window configured, no clock read, no write job timed
NoWindow == [days |-> {}, start |-> <<0, 0>>, end |-> <<0, 0>>, includesMidnight |-> FALSE]

NoClock == [day |-> 0, hr |-> 0, min |-> 0, half |-> 0]

NoWJob == [pc |-> "idle", now |-> NoClock, inWindow |-> FALSE, next |-> NoClock,
           runTime |-> NoClock, ranAt |-> NoClock]

\* no request received, nothing answered
NoReq == [path |-> "none", method |-> "none", body |-> "none"]

NoResp == [status |-> 0, aborted |-> FALSE, spawned |-> FALSE,
           pre |-> <<>>, post |-> <<>>]

\* no call of the docker API made
NoDocker == [calls |-> <<>>, op |-> "none", failed |-> {}]

\* no server asked
NoRemote == [key |-> [status |-> 0, body |-> NoPem], cert |-> [status |-> 0, body |-> NoPem]]

(***************************************************************************)
(* SpecStore: the calls of SafeCert, in any order and with any arguments   *)
(***************************************************************************)
StoreKeyArgs == KeyPems \cup {NoPem}

StoreCertArgs == CertPems \cup {NoPem}

InitStore ==
    /\ sc = NewSafeCert
    /\ disk = NoDisk
    /\ cfg = NoCfg
    /\ upd = NoUpdate
    /\ rd = NoRead
    /\ pass = NoPass
    /\ pendingJobCancel = 0
    /\ jobs = <<>>
    /\ handlers = <<>>
    /\ mainpc = "store"
    /\ inWindow = FALSE
    /\ crashed = FALSE
    /\ window = NoWindow
    /\ clock = NoClock
    /\ wjob = NoWJob
    /\ req = NoReq
    /\ resp = NoResp
    /\ remote = NoRemote
    /\ docker = NoDocker
    /\ firstPass = NoPass

StoreUpdate(keyPem, certPem) ==
    LET r == SafeCert_Update(sc, keyPem, certPem)
    IN  /\ sc' = r.sc
        /\ upd' = UpdateRecord(keyPem, certPem, r)
        /\ UNCHANGED <<otherVars, disk, cfg, rd, pass, pendingJobCancel, jobs, handlers,
                       mainpc, inWindow, crashed>>

StoreRead ==
    /\ rd' = [op |-> "Read", keyPem |-> SafeCert_Read(sc)[1],
              certPem |-> SafeCert_Read(sc)[2], cert |-> NoCert,
              valid |-> FALSE]
    /\ UNCHANGED <<otherVars, sc, disk, cfg, upd, pass, pendingJobCancel, jobs, handlers,
                   mainpc, inWindow, crashed>>

StoreHandshake ==
    /\ rd' = [op |-> "TlsCertFunc", keyPem |-> NoPem, certPem |-> NoPem,
              cert |-> SafeCert_TlsCertFunc(sc), valid |-> FALSE]
    /\ UNCHANGED <<otherVars, sc, disk, cfg, upd, pass, pendingJobCancel, jobs, handlers,
                   mainpc, inWindow, crashed>>

StoreHasValid ==
    /\ rd' = [op |-> "HasValidTLSCertificate", keyPem |-> NoPem, certPem |-> NoPem,
              cert |-> NoCert, valid |-> HasValidTLSCertificate(sc)]
    /\ UNCHANGED <<otherVars, sc, disk, cfg, upd, pass, pendingJobCancel, jobs, handlers,
                   mainpc, inWindow, crashed>>

NextStore ==
    \/ \E keyPem \in StoreKeyArgs, certPem \in StoreCertArgs : StoreUpdate(keyPem, certPem)
    \/ StoreRead
    \/ StoreHandshake
    \/ StoreHasValid

SpecStore == InitStore /\ [][NextStore]_vars

(***************************************************************************)
(* SpecReconcile: one pass of updateCertFilesAndRestartContainers from     *)
(* every store content, storage directory and configuration                *)
(***************************************************************************)
MaxContainers == 1

ReconcileKeyPems == {"k1", "k2", "kBad"}

ReconcileCertPems == {"c1", "c2", "cBad"}

DiskKeys == {Absent, Unreadable, "k1", "k2", "kBad"}

DiskCerts == {Absent, Unreadable, "c1", "c2", "cExp", "cBad", "noPem"}

DiskPfxs == {PfxAbsent, PfxForeign, <<"k1", "c1">>}

\* the store after the Update call that left keyPem/certPem in it
StoreHolding(keyPem, certPem) ==
    [keyPem |-> keyPem, certPem |-> certPem,
     cert |-> IF X509KeyPair(certPem, keyPem) THEN TlsCertOf(keyPem, certPem) ELSE NoCert]

InitReconcile ==
    /\ sc \in {StoreHolding(k, c) : k \in ReconcileKeyPems, c \in ReconcileCertPems}
    /\ disk \in [key : DiskKeys, cert : DiskCerts, pfx : DiskPfxs, legacy : DiskPfxs]
    /\ cfg \in [PfxCreate : BOOLEAN, PfxLegacyCreate : BOOLEAN,
                 containers : 0..MaxContainers, DockerStopOnly : {FALSE}]
    /\ upd = NoUpdate
    /\ rd = NoRead
    /\ pass = NoPass
    /\ pendingJobCancel = 0
    /\ jobs = <<>>
    /\ handlers = <<>>
    /\ mainpc = "reconcile"
    /\ inWindow = FALSE
    /\ crashed = FALSE
    /\ window = NoWindow
    /\ clock = NoClock
    /\ wjob = NoWJob
    /\ req = NoReq
    /\ resp = NoResp
    /\ remote = NoRemote
    /\ docker = NoDocker
    /\ firstPass = NoPass

Reconcile(onlyIfMissing, fails) ==
    LET r == updateCertFilesAndRestartContainers(disk, cfg, SafeCert_Read(sc)[1],
                                                 SafeCert_Read(sc)[2], onlyIfMissing, fails)
    IN  /\ pass.n = 0
        /\ pass' = PassRecord(r, fails)
        /\ disk' = r.post
        /\ crashed' = r.panicked
        /\ UNCHANGED <<otherVars, sc, cfg, upd, rd, pendingJobCancel, jobs, handlers,
                       mainpc, inWindow>>

NextReconcile ==
    \E onlyIfMissing \in BOOLEAN, fails \in SUBSET Files : Reconcile(onlyIfMissing, fails)

SpecReconcile == InitReconcile /\ [][NextReconcile]_vars

(***************************************************************************)
(* Spec: the running process.                                              *)
(*                                                                         *)
(* main() configures the app, fetches once, reconciles or schedules a      *)
(* fetch job, and serves pushes.  Every job and every accepted push runs   *)
(* in a goroutine of its own; the goroutines share app.pendingJobCancel,   *)
(* app.tlsCert and the storage directory and interleave between the steps  *)
(* below.                                                                  *)
(*                                                                         *)
(* A job goroutine (main.go:238-346):                                      *)
(*   start        created by the go statement                              *)
(*   armed        called the old pendingJobCancel, has not stored its own  *)
(*   sleep        in the select on ctx.Done() and the timer                *)
(*   reconciling  (write job) past Read(), in the pass                     *)
(*   fetching     (fetch job) in updateClientKeyAndCertchain               *)
(*   done         returned after its work                                  *)
(*   canceled     returned through the ctx.Done() case                     *)
(* A sleeping job whose context is cancelled returns; one that is past its *)
(* select is not stopped by a cancel.                                      *)
(*                                                                         *)
(* A push goroutine (https_server_route.go:85-96):                         *)
(*   start, reconciling, decide (the pass returned ret), done              *)
(***************************************************************************)
MaxJobs == 3

MaxPushes == 2

\* the pairs the remote server and the pushes deliver
RemotePairs == {<<"k1", "c1">>, <<"k2", "c2">>}

PushPairs == {<<"k1", "c1">>, <<"k2", "c2">>, <<"kBad", "c1">>}

\* the storage directories the process is started on
StartDisks ==
    {NoDisk,
     [key |-> "k1", cert |-> "c1", pfx |-> PfxAbsent, legacy |-> PfxAbsent]}

StartCfgs == {NoCfg}

\* the failure sets of a pass of the running process
PassFails == {{}, {"key"}}

NewJob(kind) ==
    [kind |-> kind, pc |-> "start", canceled |-> FALSE, slept |-> FALSE,
     superseded |-> FALSE, cancelledOld |-> 0, missed |-> FALSE,
     retry |-> FALSE, ret |-> FALSE,
     keyPemApp |-> NoPem, certPemApp |-> NoPem]

NewHandler ==
    [pc |-> "start", keyPemApp |-> NoPem, certPemApp |-> NoPem, ret |-> FALSE]

JobIds == 1..Len(jobs)

HandlerIds == 1..Len(handlers)

\* the process has not exited
Running == mainpc \notin {"fatal", "exited"} /\ ~crashed

\* the mutant whose schedule calls always start a fetch job
Schedule_FetchOnly(js, kind) == Append(js, NewJob("fetch"))

\* the mutant whose schedule calls start no goroutine
Schedule_Nothing(js, kind) == js

\* the go statement of scheduleJobWriteCertsMemoryToDisk /
\* scheduleJobFetchCertsAndWriteToDisk
Schedule(js, kind) == Append(js, NewJob(kind))

\* cancel() of job p's context: p = 0 is the nil handle
Cancel(js, p) ==
    IF p = 0 THEN js ELSE [js EXCEPT ![p].canceled = TRUE]

Init ==
    /\ sc = NewSafeCert
    /\ disk \in StartDisks
    /\ cfg \in StartCfgs
    /\ upd = NoUpdate
    /\ rd = NoRead
    /\ pass = NoPass
    /\ pendingJobCancel = 0
    /\ jobs = <<>>
    /\ handlers = <<>>
    /\ mainpc = "configure"
    /\ inWindow \in BOOLEAN
    /\ crashed = FALSE
    /\ window = NoWindow
    /\ clock = NoClock
    /\ wjob = NoWJob
    /\ req = NoReq
    /\ resp = NoResp
    /\ remote = NoRemote
    /\ docker = NoDocker
    /\ firstPass = NoPass

\* configureApp: read certchain.pem and key.pem and, if both were read, put them
\* in tlsCert (an error of Update is only logged)
MainConfigure ==
    /\ mainpc = "configure"
    /\ sc' = IF disk.cert \notin {Absent, Unreadable} /\ disk.key \notin {Absent, Unreadable}
             THEN SafeCert_Update(sc, disk.key, disk.cert).sc
             ELSE sc
    /\ mainpc' = "fetch"
    /\ UNCHANGED <<otherVars, disk, cfg, upd, rd, pass, pendingJobCancel, jobs, handlers,
                   inWindow, crashed>>

\* updateClientKeyAndCertchain: res is "error" when a download fails, else the pair
\* downloaded; the store afterwards and whether the call returned an error
updateClientKeyAndCertchain(s, res) ==
    IF res = <<"error", "error">>
    THEN [sc |-> s, err |-> TRUE]
    ELSE [sc |-> SafeCert_Update(s, res[1], res[2]).sc,
          err |-> SafeCert_Update(s, res[1], res[2]).err]

FetchResults == RemotePairs \cup {<<"error", "error">>}

\* main.go:80-108 up to the first reconciliation: the fetch on start, the fatal
\* exit without a valid certificate, the fetch job when the fetch failed
MainFetch(res) ==
    LET r == updateClientKeyAndCertchain(sc, res)
    IN  /\ mainpc = "fetch"
        /\ sc' = r.sc
        /\ IF ~HasValidTLSCertificate(r.sc)
           THEN mainpc' = "fatal" /\ jobs' = jobs
           ELSE IF ~r.err
           THEN mainpc' = "reconcile" /\ jobs' = jobs
           ELSE mainpc' = "serving" /\ jobs' = Schedule(jobs, "fetch")
        /\ UNCHANGED <<otherVars, disk, cfg, upd, rd, pass, pendingJobCancel, handlers,
                       inWindow, crashed>>

\* main.go:96-104: the pass on start and the write job it may schedule; then
\* the https server starts
MainReconcile(fails) ==
    LET r == updateCertFilesAndRestartContainers(disk, cfg, SafeCert_Read(sc)[1],
                                                 SafeCert_Read(sc)[2], TRUE, fails)
    IN  /\ mainpc = "reconcile"
        /\ disk' = r.post
        /\ crashed' = r.panicked
        /\ jobs' = IF r.diskNeedsUpdate THEN Schedule(jobs, "write") ELSE jobs
        /\ mainpc' = "serving"
        /\ UNCHANGED <<otherVars, sc, cfg, upd, rd, pass, pendingJobCancel, handlers, inWindow>>

\* the clock enters or leaves the file update window
ClockTick ==
    /\ Running
    /\ inWindow' = ~inWindow
    /\ UNCHANGED <<otherVars, sc, disk, cfg, upd, rd, pass, pendingJobCancel, jobs, handlers,
                   mainpc, crashed>>

\* postKeyAndCert, a request that decrypts to the pair (keyPem, certPem):
\* updateClientCert and, unless it fails, the go statement of line 85
Push(keyPem, certPem) ==
    LET r == SafeCert_Update(sc, keyPem, certPem)
    IN  /\ mainpc = "serving"
        /\ ~crashed
        /\ Len(handlers) < MaxPushes
        /\ sc' = r.sc
        /\ handlers' = IF r.err THEN handlers ELSE Append(handlers, NewHandler)
        /\ UNCHANGED <<otherVars, disk, cfg, upd, rd, pass, pendingJobCancel, jobs, mainpc,
                       inWindow, crashed>>

\* line 87, entered: the pass reads the store
HandlerBegin(h) ==
    /\ Running
    /\ handlers[h].pc = "start"
    /\ handlers' = [handlers EXCEPT ![h].pc = "reconciling",
                                    ![h].keyPemApp = SafeCert_Read(sc)[1],
                                    ![h].certPemApp = SafeCert_Read(sc)[2]]
    /\ UNCHANGED <<otherVars, sc, disk, cfg, upd, rd, pass, pendingJobCancel, jobs, mainpc,
                   inWindow, crashed>>

\* line 87, returning: the rest of the pass, with onlyIfMissing
HandlerEnd(h, fails) ==
    LET r == updateCertFilesAndRestartContainers(disk, cfg, handlers[h].keyPemApp,
                                                 handlers[h].certPemApp, TRUE, fails)
    IN  /\ Running
        /\ handlers[h].pc = "reconciling"
        /\ disk' = r.post
        /\ crashed' = r.panicked
        /\ handlers' = [handlers EXCEPT ![h] = [NewHandler EXCEPT !.pc = "decide",
                                                                 !.ret = r.diskNeedsUpdate]]
        /\ UNCHANGED <<otherVars, sc, cfg, upd, rd, pass, pendingJobCancel, jobs, mainpc, inWindow>>

\* lines 90-95: schedule a write job, or cancel whatever job is pending
HandlerDecide(h) ==
    /\ Running
    /\ handlers[h].pc = "decide"
    /\ handlers[h].ret => Len(jobs) < MaxJobs
    /\ jobs' = IF handlers[h].ret THEN Schedule(jobs, "write")
               ELSE Cancel(jobs, pendingJobCancel)
    /\ handlers' = [handlers EXCEPT ![h] = [NewHandler EXCEPT !.pc = "done"]]
    /\ UNCHANGED <<otherVars, sc, disk, cfg, upd, rd, pass, pendingJobCancel, mainpc,
                   inWindow, crashed>>

\* a job that has called the old cancel or sleeps, and has not been cancelled
PreWake(j) == jobs[j].pc \in {"armed", "sleep"} /\ ~jobs[j].canceled

\* main.go:241-243 / 302-304: cancel any old job.  The jobs that are armed or
\* asleep at this moment are the ones this job is scheduled after.
JobCancelOld(j) ==
    /\ Running
    /\ jobs[j].pc = "start"
    /\ jobs' = [i \in JobIds |->
                  IF i = j
                  THEN [jobs[i] EXCEPT !.pc = "armed", !.cancelledOld = pendingJobCancel]
                  ELSE [jobs[i] EXCEPT
                          !.superseded = @ \/ PreWake(i),
                          !.canceled = @ \/ (i = pendingJobCancel)]]
    /\ UNCHANGED <<otherVars, sc, disk, cfg, upd, rd, pass, pendingJobCancel, handlers, mainpc,
                   inWindow, crashed>>

\* main.go:246-256 / 307-320: store this job's cancel in app.pendingJobCancel; a
\* write job inside the window goes on at once, every other job sleeps
JobSetPending(j) ==
    /\ Running
    /\ jobs[j].pc = "armed"
    /\ pendingJobCancel' = j
    /\ jobs' = [jobs EXCEPT
                  ![j] = IF jobs[j].kind = "write" /\ inWindow
                         THEN [@ EXCEPT !.pc = "reconciling", !.cancelledOld = 0,
                                        !.missed = pendingJobCancel # jobs[j].cancelledOld,
                                        !.keyPemApp = SafeCert_Read(sc)[1],
                                        !.certPemApp = SafeCert_Read(sc)[2]]
                         ELSE [@ EXCEPT !.pc = "sleep", !.slept = TRUE,
                                        !.cancelledOld = 0,
                                        !.missed = pendingJobCancel # jobs[j].cancelledOld]]
    /\ UNCHANGED <<otherVars, sc, disk, cfg, upd, rd, pass, handlers, mainpc, inWindow, crashed>>

\* the case <-ctx.Done() of the select: the job returns
JobCanceled(j) ==
    /\ Running
    /\ jobs[j].pc = "sleep"
    /\ jobs[j].canceled
    /\ jobs' = [jobs EXCEPT ![j].pc = "canceled"]
    /\ UNCHANGED <<otherVars, sc, disk, cfg, upd, rd, pass, pendingJobCancel, handlers, mainpc,
                   inWindow, crashed>>

\* the case <-time.After(...) of the select: the window has started (write job) or
\* the retry interval is over (fetch job), and the job starts its work
JobWake(j) ==
    /\ Running
    /\ jobs[j].pc = "sleep"
    /\ ~jobs[j].canceled
    /\ jobs[j].kind = "write" => inWindow
    /\ jobs' = [jobs EXCEPT
                  ![j] = IF jobs[j].kind = "write"
                         THEN [@ EXCEPT !.pc = "reconciling",
                                        !.keyPemApp = SafeCert_Read(sc)[1],
                                        !.certPemApp = SafeCert_Read(sc)[2]]
                         ELSE [@ EXCEPT !.pc = "fetching"]]
    /\ UNCHANGED <<otherVars, sc, disk, cfg, upd, rd, pass, pendingJobCancel, handlers, mainpc,
                   inWindow, crashed>>

\* main.go:284-291: the pass of the write job returns; if the disk still needs an
\* update the job schedules the next write job; its deferred cancel() runs
JobReconcileEnd(j, fails) ==
    LET r == updateCertFilesAndRestartContainers(disk, cfg, jobs[j].keyPemApp,
                                                 jobs[j].certPemApp, FALSE, fails)
        finished == [jobs EXCEPT ![j].pc = "done", ![j].canceled = TRUE,
                                 ![j].ret = r.diskNeedsUpdate,
                                 ![j].keyPemApp = NoPem, ![j].certPemApp = NoPem]
        retry == [NewJob("write") EXCEPT !.retry = TRUE]
    IN  /\ Running
        /\ jobs[j].pc = "reconciling"
        /\ r.diskNeedsUpdate => Len(jobs) < MaxJobs
        /\ disk' = r.post
        /\ crashed' = r.panicked
        /\ jobs' = IF r.diskNeedsUpdate THEN Append(finished, retry) ELSE finished
        /\ UNCHANGED <<otherVars, sc, cfg, upd, rd, pass, pendingJobCancel, handlers, mainpc,
                       inWindow>>

\* main.go:334-344: the fetch of the fetch job returns; the job schedules the next
\* fetch job on an error and a write job otherwise; its deferred cancel() runs
JobFetchEnd(j, res) ==
    LET r == updateClientKeyAndCertchain(sc, res)
        finished == [jobs EXCEPT ![j].pc = "done", ![j].canceled = TRUE,
                                 ![j].ret = r.err]
    IN  /\ Running
        /\ jobs[j].pc = "fetching"
        /\ Len(jobs) < MaxJobs
        /\ sc' = r.sc
        /\ jobs' = Schedule(finished, IF r.err THEN "fetch" ELSE "write")
        /\ UNCHANGED <<otherVars, disk, cfg, upd, rd, pass, pendingJobCancel, handlers, mainpc,
                       inWindow, crashed>>

Next ==
    \/ MainConfigure
    \/ \E res \in FetchResults : MainFetch(res)
    \/ \E fails \in PassFails : MainReconcile(fails)
    \/ ClockTick
    \/ \E pair \in PushPairs : Push(pair[1], pair[2])
    \/ \E h \in HandlerIds : HandlerBegin(h)
    \/ \E h \in HandlerIds, fails \in PassFails : HandlerEnd(h, fails)
    \/ \E h \in HandlerIds : HandlerDecide(h)
    \/ \E j \in JobIds : JobCancelOld(j)
    \/ \E j \in JobIds : JobSetPending(j)
    \/ \E j \in JobIds : JobCanceled(j)
    \/ \E j \in JobIds : JobWake(j)
    \/ \E j \in JobIds, fails \in PassFails : JobReconcileEnd(j, fails)
    \/ \E j \in JobIds, res \in FetchResults : JobFetchEnd(j, res)

Spec == Init /\ [][Next]_vars

(***************************************************************************)
(* SpecShutdown: the running process with the shutdown signal               *)
(***************************************************************************)
\* main.go:117-124: the shutdown context is done, the https server stops
\* accepting, main cancels whatever job app.pendingJobCancel belongs to
MainShutdown ==
    /\ mainpc = "serving"
    /\ ~crashed
    /\ mainpc' = "shutdown"
    /\ jobs' = Cancel(jobs, pendingJobCancel)
    /\ UNCHANGED <<otherVars, sc, disk, cfg, upd, rd, pass, pendingJobCancel, handlers,
                   inWindow, crashed>>

\* main.go:126-146: the wait group holds the https server only; main returns
\* and the process ends with every goroutine still in it
MainExit ==
    /\ mainpc = "shutdown"
    /\ ~crashed
    /\ mainpc' = "exited"
    /\ UNCHANGED <<otherVars, sc, disk, cfg, upd, rd, pass, pendingJobCancel, jobs,
                   handlers, inWindow, crashed>>

\* the process is started on a directory that holds a usable pair
InitShutdown ==
    /\ Init
    /\ disk.key # Absent

NextShutdown ==
    \/ MainConfigure
    \/ \E res \in FetchResults : MainFetch(res)
    \/ \E fails \in PassFails : MainReconcile(fails)
    \/ ClockTick
    \/ \E pair \in RemotePairs : Push(pair[1], pair[2])
    \/ \E h \in HandlerIds : HandlerBegin(h)
    \/ \E h \in HandlerIds, fails \in PassFails : HandlerEnd(h, fails)
    \/ \E h \in HandlerIds : HandlerDecide(h)
    \/ \E j \in JobIds : JobCancelOld(j)
    \/ \E j \in JobIds : JobSetPending(j)
    \/ \E j \in JobIds : JobCanceled(j)
    \/ \E j \in JobIds : JobWake(j)
    \/ \E j \in JobIds, fails \in PassFails : JobReconcileEnd(j, fails)
    \/ \E j \in JobIds, res \in FetchResults : JobFetchEnd(j, res)
    \/ MainShutdown
    \/ MainExit

SpecShutdown == InitShutdown /\ [][NextShutdown]_vars

(***************************************************************************)
(* Claims about SafeCert, checked under SpecStore                          *)
(***************************************************************************)
UpdateArgsValid == X509KeyPair(upd.certPem, upd.keyPem)

UpdateRepeatsItsArgs ==
    /\ upd.n >= 2
    /\ upd.prevKeyPem = upd.keyPem
    /\ upd.prevCertPem = upd.certPem

\* C5: an Update call that returns an error leaves what Read() and the handshake
\* callback return exactly as it was before the call (key, cert and parsed
\* certificate are replaced together or not at all).
C5_FailedUpdateChangesNothing ==
    (upd.n > 0 /\ upd.err) =>
        /\ SafeCert_Read(sc) = SafeCert_Read(upd.pre)
        /\ SafeCert_TlsCertFunc(sc) = SafeCert_TlsCertFunc(upd.pre)

\* C6: every Update call with a pair that does not parse or does not match returns
\* an error, whatever the store holds and whatever calls came before.
C6_InvalidPairAlwaysRejected ==
    (upd.n > 0 /\ ~UpdateArgsValid) => upd.err

\* C7: an Update call that repeats the valid pair of the call before it returns
\* changed=false without error, leaves the stored PEM and the parsed certificate
\* as they were, and writes no file.
C7_RepeatedUpdateIsNoChange ==
    (UpdateArgsValid /\ UpdateRepeatsItsArgs) =>
        /\ ~upd.updated
        /\ ~upd.err
        /\ sc = upd.pre
        /\ disk = upd.preDisk

\* a valid pair was passed to Update twice in a row, and the first of the two
\* calls installed it
C7_Witness ==
    /\ UpdateArgsValid
    /\ UpdateRepeatsItsArgs
    /\ sc.cert = TlsCertOf(upd.keyPem, upd.certPem)

(***************************************************************************)
(* Claims about one reconciliation pass, checked under SpecReconcile       *)
(***************************************************************************)
PassReturned == pass.n > 0 /\ ~pass.panicked

EnabledFiles == {"key", "cert"} \cup (IF cfg.PfxCreate THEN {"pfx"} ELSE {})
                               \cup (IF cfg.PfxLegacyCreate THEN {"legacy"} ELSE {})

FileContent(d, f) ==
    CASE f = "key" -> <<d.key, d.key>>
      [] f = "cert" -> <<d.cert, d.cert>>
      [] f = "pfx" -> d.pfx
      [] f = "legacy" -> d.legacy

\* the file is not in the storage directory
FileAbsent(d, f) == FileContent(d, f)[1] = Absent

\* the PEM file is there, can be read, and is not the store's PEM
PemStale(d, f) ==
    /\ FileContent(d, f)[1] \notin {Absent, Unreadable}
    /\ \/ f = "key" /\ d.key # pass.keyPemApp
       \/ f = "cert" /\ d.cert # pass.certPemApp

\* the file is there and is not, or was not derived from, the store's material: a
\* PKCS12 file counts as stale whenever a PEM file is
FileStale(d, f) ==
    IF f \in {"key", "cert"} THEN PemStale(d, f)
    ELSE ~FileAbsent(d, f) /\ (PemStale(d, "key") \/ PemStale(d, "cert"))

\* the pass cannot use the file: it is absent, or cannot be read, or it is a
\* certchain.pem that differs from the store's cert and holds no parseable or
\* only an expired certificate
FileTreatedAsMissing(d, f) ==
    \/ FileAbsent(d, f)
    \/ f \in {"key", "cert"} /\ FileContent(d, f)[1] = Unreadable
    \/ f = "cert" /\ d.cert # pass.certPemApp
                  /\ (~ParsesAsCert(d.cert) \/ Expired(d.cert))

\* C8 as stated: a write of each enabled file is attempted iff the file is absent,
\* or it is stale and (onlyIfMissing is false or anyMissing), anyMissing being true
\* exactly when some enabled file is absent on disk; no other file is written.
C8_WriteIffAbsentOrStale ==
    PassReturned =>
        LET anyMissing == \E g \in EnabledFiles : FileAbsent(pass.pre, g)
        IN  \A f \in Files :
                f \in pass.attempted <=>
                    /\ f \in EnabledFiles
                    /\ \/ FileAbsent(pass.pre, f)
                       \/ /\ FileStale(pass.pre, f)
                          /\ ~pass.onlyIfMissing \/ anyMissing

\* C8 amended: a write of each enabled file is attempted iff the file is treated as
\* missing (absent, unreadable, or a certchain.pem that differs from the store's
\* cert and is unparseable or expired), or it is stale and (onlyIfMissing is false
\* or anyMissing), anyMissing being true exactly when some enabled file is treated
\* as missing; no other file is written.
C8_WriteIffMissingOrStale ==
    PassReturned =>
        LET anyMissing == \E g \in EnabledFiles : FileTreatedAsMissing(pass.pre, g)
        IN  \A f \in Files :
                f \in pass.attempted <=>
                    /\ f \in EnabledFiles
                    /\ \/ FileTreatedAsMissing(pass.pre, f)
                       \/ /\ FileStale(pass.pre, f)
                          /\ ~pass.onlyIfMissing \/ anyMissing

\* a pass with onlyIfMissing found key.pem stale and nothing absent, and still
\* rewrote it because the certchain.pem on disk had expired
C8_Witness ==
    /\ PassReturned
    /\ pass.onlyIfMissing
    /\ \A g \in EnabledFiles : ~FileAbsent(pass.pre, g)
    /\ pass.pre.cert = "cExp"
    /\ FileStale(pass.pre, "key")
    /\ "key" \in pass.attempted

\* C9: a pass returns true iff some enabled file was stale and not written in the
\* pass, or some write attempt of the pass failed.
C9_ReturnsTrueIffStaleLeftOrFailed ==
    PassReturned =>
        (pass.diskNeedsUpdate <=>
            \/ \E f \in EnabledFiles : FileStale(pass.pre, f) /\ f \notin pass.wrote
            \/ pass.failed # {})

\* a pass with onlyIfMissing left a stale key.pem alone, no write failing, and
\* returned true
C9_Witness ==
    /\ PassReturned
    /\ pass.diskNeedsUpdate
    /\ pass.failed = {}
    /\ FileStale(pass.pre, "key")
    /\ "key" \notin pass.wrote

AllEnabledPresentAndFresh ==
    /\ pass.pre.key = pass.keyPemApp
    /\ pass.pre.cert = pass.certPemApp
    /\ \A f \in EnabledFiles : ~FileAbsent(pass.pre, f)

KeyMissingCertFresh ==
    /\ pass.pre.key = Absent
    /\ pass.pre.cert = pass.certPemApp

\* C10 as stated: a pass with onlyIfMissing that finds every enabled file present
\* and fresh writes nothing and acts on no container; one that finds key.pem
\* missing and the cert fresh writes key.pem and acts on every configured
\* container.
C10_KeyMissingIsWritten ==
    (PassReturned /\ pass.onlyIfMissing) =>
        /\ AllEnabledPresentAndFresh => (pass.wrote = {} /\ pass.actions = 0)
        /\ KeyMissingCertFresh =>
                /\ "key" \in pass.wrote
                /\ pass.actions = cfg.containers

\* C10 amended: ... one that finds key.pem missing and the cert fresh attempts to
\* write key.pem and, if that write succeeds, key.pem holds the store's key and
\* every configured container is acted on.
C10_KeyMissingIsAttempted ==
    (PassReturned /\ pass.onlyIfMissing) =>
        /\ AllEnabledPresentAndFresh =>
                (pass.attempted = {} /\ pass.wrote = {} /\ pass.actions = 0)
        /\ KeyMissingCertFresh =>
                /\ "key" \in pass.attempted
                /\ "key" \notin pass.fails =>
                        /\ "key" \in pass.wrote
                        /\ disk.key = pass.keyPemApp
                        /\ pass.actions = cfg.containers

\* a pass with onlyIfMissing found key.pem missing and the cert fresh, wrote
\* key.pem and acted on a container
C10_Witness ==
    /\ PassReturned
    /\ pass.onlyIfMissing
    /\ KeyMissingCertFresh
    /\ "key" \in pass.wrote
    /\ pass.actions > 0

(***************************************************************************)
(* Claims about the scheduler, checked under Spec                          *)
(***************************************************************************)
\* the job sleeps and its context is not cancelled
JobPending(j) == jobs[j].pc = "sleep" /\ ~jobs[j].canceled

\* the job is past its select, in its pass or its fetch
JobRunning(j) == jobs[j].pc \in {"reconciling", "fetching"}

\* the job went past its select
JobExecuted(j) == jobs[j].pc \in {"reconciling", "fetching", "done"}

\* every goroutine has returned or is a job waiting in its select
Quiescent ==
    /\ mainpc = "serving"
    /\ ~crashed
    /\ \A h \in HandlerIds : handlers[h].pc = "done"
    /\ \A j \in JobIds : JobPending(j) \/ jobs[j].pc \in {"done", "canceled"}

\* the store holds a pair that Update accepted
StoreHoldsAcceptedPair == sc.cert = TlsCertOf(sc.keyPem, sc.certPem)

DiskDiffersFromStore == disk.key # sc.keyPem \/ disk.cert # sc.certPem

\* C1: outstanding write work is never lost: whenever key.pem or certchain.pem
\* differ from the material the store holds and no goroutine is reconciling,
\* fetching or on its way to schedule a job, a scheduled job is pending.
C1_StaleDiskHasPendingJob ==
    (Quiescent /\ StoreHoldsAcceptedPair /\ DiskDiffersFromStore) =>
        \E j \in JobIds : JobPending(j)

\* C2: at most one scheduled job is pending or running, and every job, before it
\* stores its cancel handle, has cancelled the job whose handle it overwrites.
C2_AtMostOneJob ==
    /\ Cardinality({j \in JobIds : JobPending(j) \/ JobRunning(j)}) <= 1
    /\ \A j \in JobIds : ~jobs[j].missed

\* C3: at most one reconciliation or remote fetch is in flight, counting the ones
\* of scheduled jobs and of push handlers.
C3_AtMostOneInFlight ==
    Cardinality({j \in JobIds : JobRunning(j)})
        + Cardinality({h \in HandlerIds : handlers[h].pc = "reconciling"}) <= 1

\* C4: of two jobs scheduled in quick succession only the second executes: a job
\* that went to sleep, and after which another job was scheduled while it had not
\* yet woken, is cancelled and never fetches, reconciles or re-schedules.
C4_SupersededJobNeverExecutes ==
    \A j \in JobIds : (jobs[j].superseded /\ jobs[j].slept) => ~JobExecuted(j)


(***************************************************************************)
(* The file update window (main.go:158-233, update_fetch.go:121-137,       *)
(* config.go:629-660).                                                     *)
(*                                                                         *)
(* An instant is [day, hr, min, half]: a day number whose weekday is       *)
(* day % 7 (0 is time.Sunday), an hour and a minute of that day, and the   *)
(* half of the minute (0: seconds 0-29, 1: seconds 30-59).  Every day has  *)
(* 24 hours: a change of the zone offset between two days is not modelled. *)
(***************************************************************************)
DaysPerWeek == 7

HoursPerDay == 24

MaxHour == 23

MaxMinute == 59

\* the days the loop of nextFileUpdateWindowStart looks ahead
MaxScanDays == 8

Weekday(t) == t.day % DaysPerWeek

\* the instant as a number of half minutes
Halves(t) == ((t.day * HoursPerDay + t.hr) * (MaxMinute + 1) + t.min) * 2 + t.half

\* t.Round(time.Minute): halfway values round up
Round(t) ==
    IF t.half = 0 THEN t
    ELSE IF t.min < MaxMinute THEN [t EXCEPT !.min = @ + 1, !.half = 0]
    ELSE IF t.hr < MaxHour THEN [t EXCEPT !.hr = @ + 1, !.min = 0, !.half = 0]
    ELSE [day |-> t.day + 1, hr |-> 0, min |-> 0, half |-> 0]

timeAIsBeforeOrEqualB(aHr, aMin, bHr, bMin) ==
    aHr < bHr \/ (aHr = bHr /\ aMin <= bMin)

timeAIsAfterOrEqualB(aHr, aMin, bHr, bMin) ==
    aHr > bHr \/ (aHr = bHr /\ aMin >= bMin)

\* config.go:647-651
FileUpdateTimeIncludesMidnight(start, end) ==
    end[1] < start[1] \/ (end[1] = start[1] /\ end[2] < start[2])

MakeWindow(days, start, end) ==
    [days |-> days, start |-> start, end |-> end,
     includesMidnight |-> FileUpdateTimeIncludesMidnight(start, end)]

inFileUpdateWindow_NoPrevDay(w, t) ==
    /\ Weekday(t) \in w.days
    /\ timeAIsAfterOrEqualB(t.hr, t.min, w.start[1], w.start[2])
    /\ w.includesMidnight \/ timeAIsBeforeOrEqualB(t.hr, t.min, w.end[1], w.end[2])

inFileUpdateWindow(w, t) ==
    LET approvedWeekday == \E weekday \in w.days : Weekday(t) = weekday
        prevDayWasApprovedWeekday ==
            \E weekday \in w.days : (Weekday(t) + DaysPerWeek - 1) % DaysPerWeek = weekday
        tAfterOrEqualStartTime ==
            timeAIsAfterOrEqualB(t.hr, t.min, w.start[1], w.start[2])
        tBeforeOrEqualEndTime ==
            timeAIsBeforeOrEqualB(t.hr, t.min, w.end[1], w.end[2])
    IN  IF w.includesMidnight
        THEN \/ prevDayWasApprovedWeekday /\ tBeforeOrEqualEndTime
             \/ approvedWeekday /\ tAfterOrEqualStartTime
        ELSE approvedWeekday /\ tAfterOrEqualStartTime /\ tBeforeOrEqualEndTime

\* the value of addDays after the loop of main.go:219-225
addDays(w, now) ==
    LET ok == {a \in 1..MaxScanDays : (Weekday(now) + a) % DaysPerWeek \in w.days}
    IN  IF ok = {} THEN MaxScanDays + 1
        ELSE CHOOSE a \in ok : \A b \in ok : a <= b

nextFileUpdateWindowStart_SkipToday(w, tnow) ==
    LET now == Round(tnow)
    IN  [day |-> now.day + addDays(w, now), hr |-> w.start[1], min |-> w.start[2],
         half |-> 0]

\* tnow is what time.Now() returns inside the function
nextFileUpdateWindowStart(w, tnow) ==
    LET now == Round(tnow)
        nextWindow == [day |-> now.day, hr |-> w.start[1], min |-> w.start[2],
                       half |-> 0]
    IN  IF Weekday(now) \in w.days
           /\ timeAIsBeforeOrEqualB(now.hr, now.min, w.start[1], w.start[2])
        THEN nextWindow
        ELSE [nextWindow EXCEPT !.day = @ + addDays(w, now)]

(***************************************************************************)
(* SpecWindow: one write job against the clock (main.go:252-284), for      *)
(* every configured window and every instant it may be started at, and the *)
(* two functions called on their own.                                      *)
(***************************************************************************)
\* CW_CLIENT_FILE_UPDATE_DAYS_OF_WEEK: never empty (config.go:654-660)
WindowDays == (SUBSET (0..(DaysPerWeek - 1))) \ {{}}

\* CW_CLIENT_FILE_UPDATE_TIME_START / _END
WindowTimes == {<<2, 0>>, <<3, 0>>, <<22, 0>>, <<23, 59>>}

ClockTimes == {<<0, 0>>, <<1, 30>>, <<2, 0>>, <<3, 0>>, <<21, 59>>, <<22, 0>>,
               <<23, 30>>, <<23, 59>>}

\* rand.Intn(60) seconds, as the half of the minute they fall in
Jitters == {0, 1}

InitWindow ==
    /\ sc = NewSafeCert
    /\ disk = NoDisk
    /\ cfg = NoCfg
    /\ upd = NoUpdate
    /\ rd = NoRead
    /\ pass = NoPass
    /\ pendingJobCancel = 0
    /\ jobs = <<>>
    /\ handlers = <<>>
    /\ mainpc = "window"
    /\ inWindow = FALSE
    /\ crashed = FALSE
    /\ window \in {MakeWindow(d, s, e) : d \in WindowDays, s \in WindowTimes,
                                         e \in WindowTimes}
    /\ clock \in {[day |-> d, hr |-> t[1], min |-> t[2], half |-> h] :
                    d \in 0..(DaysPerWeek - 1), t \in ClockTimes, h \in {0, 1}}
    /\ wjob = NoWJob
    /\ req = NoReq
    /\ resp = NoResp
    /\ remote = NoRemote
    /\ docker = NoDocker
    /\ firstPass = NoPass

\* main.go:252-281: the job reads the clock and runs at once or computes runTime
WriteJobCheckWindow(jitter) ==
    LET now == Round(clock)
        next == nextFileUpdateWindowStart(window, clock)
    IN  /\ wjob.pc = "idle"
        /\ wjob' = IF inFileUpdateWindow(window, now)
                   THEN [NoWJob EXCEPT !.pc = "run", !.now = now, !.inWindow = TRUE,
                                       !.ranAt = clock]
                   ELSE [NoWJob EXCEPT !.pc = "sleep", !.now = now, !.next = next,
                                       !.runTime = [next EXCEPT !.half = jitter]]
        /\ UNCHANGED <<sc, disk, cfg, upd, rd, pass, pendingJobCancel, jobs, handlers,
                       mainpc, inWindow, crashed, window, clock, req, resp, remote, docker, firstPass>>

\* main.go:274-284: time.After(time.Until(runTime)) fires at runTime, at once if
\* runTime has passed, and the pass starts
WriteJobTimer ==
    LET woke == IF Halves(clock) >= Halves(wjob.runTime) THEN clock ELSE wjob.runTime
    IN  /\ wjob.pc = "sleep"
        /\ clock' = woke
        /\ wjob' = [wjob EXCEPT !.pc = "run", !.ranAt = woke]
        /\ UNCHANGED <<sc, disk, cfg, upd, rd, pass, pendingJobCancel, jobs, handlers,
                       mainpc, inWindow, crashed, window, req, resp, remote, docker, firstPass>>

\* nextFileUpdateWindowStart called at any instant
NextWindowStartCall ==
    /\ wjob.pc = "idle"
    /\ wjob' = [NoWJob EXCEPT !.pc = "called", !.now = Round(clock),
                              !.next = nextFileUpdateWindowStart(window, clock)]
    /\ UNCHANGED <<sc, disk, cfg, upd, rd, pass, pendingJobCancel, jobs, handlers,
                   mainpc, inWindow, crashed, window, clock, req, resp, remote, docker, firstPass>>

NextWindow ==
    \/ \E jitter \in Jitters : WriteJobCheckWindow(jitter)
    \/ WriteJobTimer
    \/ NextWindowStartCall

SpecWindow == InitWindow /\ [][NextWindow]_vars


(***************************************************************************)
(* Claims about the file update window, checked under SpecWindow           *)
(***************************************************************************)
MinuteOfDay(hr, min) == hr * (MaxMinute + 1) + min

\* the predicate of the specification, on minutes of the day
InWindowReference(w, t) ==
    LET now == MinuteOfDay(t.hr, t.min)
        start == MinuteOfDay(w.start[1], w.start[2])
        end == MinuteOfDay(w.end[1], w.end[2])
        todayApproved == (t.day % DaysPerWeek) \in w.days
        yesterdayApproved == ((t.day - 1) % DaysPerWeek) \in w.days
    IN  IF end < start
        THEN (yesterdayApproved /\ now <= end) \/ (todayApproved /\ now >= start)
        ELSE todayApproved /\ start <= now /\ now <= end

\* the window 22:00-02:00 on {Wednesday}
WednesdayNight == MakeWindow({3}, <<22, 0>>, <<2, 0>>)

At(day, hr, min) == [day |-> day, hr |-> hr, min |-> min, half |-> 0]

WriteJobChecked == wjob.pc \in {"run", "sleep"}

\* C11: the pass of the write job (onlyIfMissing = false) starts only at an
\* instant that lies inside the file update window, both when the job runs at
\* once and when it wakes at nextFileUpdateWindowStart plus the jitter.
C11_WriteJobRunsInsideWindow ==
    wjob.pc = "run" => inFileUpdateWindow(window, wjob.ranAt)

\* C12: inFileUpdateWindow(now) equals the reference predicate for every set of
\* weekdays and every start, end and now; for 22:00-02:00 on {Wednesday} it is
\* true on Wed 23:30 and Thu 01:30 and false on Thu 03:00 and Tue 23:30.
C12_InWindowMatchesReference ==
    WriteJobChecked =>
        /\ wjob.inWindow = InWindowReference(window, wjob.now)
        /\ window = WednesdayNight =>
              /\ wjob.now = At(3, 23, 30) => wjob.inWindow
              /\ wjob.now = At(4, 1, 30) => wjob.inWindow
              /\ wjob.now = At(4, 3, 0) => ~wjob.inWindow
              /\ wjob.now = At(2, 23, 30) => ~wjob.inWindow

C12_Witness ==
    /\ window = WednesdayNight
    /\ wjob.pc = "run"
    /\ wjob.now = At(4, 1, 30)
    /\ wjob.inWindow

NextWindowStartReturned == wjob.pc \in {"called", "sleep"}

TodayApprovedBeforeStart ==
    /\ (wjob.now.day % DaysPerWeek) \in window.days
    /\ MinuteOfDay(wjob.now.hr, wjob.now.min)
          <= MinuteOfDay(window.start[1], window.start[2])

JobAttempted(j) == jobs[j].pc \in {"reconciling", "fetching", "done"}

\* C14: a write job that is the retry of a write job whose pass reported the disk
\* still stale waits (cancellably) before its own pass: two consecutive passes of
\* the retry chain are separated by a wait, inside the window too.
C14_RetryWaitsBeforeItsPass ==
    \A j \in JobIds : (jobs[j].retry /\ JobAttempted(j)) => jobs[j].slept

\* job j takes the step from pc a to pc b
JobStep(j, a, b) == jobs[j].pc = a /\ jobs'[j].pc = b

\* the step appends exactly one job, of the given kind
SchedulesOne(kind) ==
    /\ Len(jobs') = Len(jobs) + 1
    /\ jobs'[Len(jobs')].kind = kind
    /\ jobs'[Len(jobs')].pc = "start"

\* every job pending before the step has its context cancelled after it
CancelsEveryPendingJob ==
    \A i \in JobIds : JobPending(i) => jobs'[i].canceled

\* C15: a fetch job cancels any pending job, sleeps, then attempts one fetch; if
\* the fetch or the Update fails it schedules a fetch job, otherwise a write job;
\* it never runs a reconciliation pass itself.
C15_FetchJobSteps ==
    [][\A j \in JobIds :
          jobs[j].kind = "fetch" =>
             /\ JobStep(j, "start", "armed") => CancelsEveryPendingJob
             /\ jobs'[j].pc # "reconciling"
             /\ jobs'[j].pc = "fetching" => jobs'[j].slept
             /\ JobStep(j, "fetching", "done") =>
                   /\ disk' = disk
                   /\ SchedulesOne(IF jobs'[j].ret THEN "fetch" ELSE "write")]_vars

\* C16: a cancel only ends a job that is sleeping; a job that has begun its pass
\* or its fetch is not stopped by a cancel from a later job, from a push goroutine
\* or from shutdown: it goes on to its end, where it schedules its successor.
C16_RunningJobRunsToCompletion ==
    [][\A j \in JobIds :
          /\ jobs'[j].pc = "canceled" => jobs[j].pc \in {"sleep", "canceled"}
          /\ JobRunning(j) =>
                /\ jobs'[j].pc \in {jobs[j].pc, "done"}
                /\ Running'
                /\ (jobs'[j].pc = "done" /\ (jobs'[j].ret \/ jobs[j].kind = "fetch"))
                      => Len(jobs') = Len(jobs) + 1]_vars

\* C19: a push whose pair Update accepts starts the goroutine that runs the pass
\* with onlyIfMissing; when the pass returns true the goroutine schedules one
\* write job, and when it returns false it schedules nothing and every job that
\* was pending is cancelled.
C19_PushGoroutineSchedulesOrCancels ==
    [][\A h \in HandlerIds :
          /\ (handlers[h].pc = "reconciling" /\ handlers'[h].pc = "decide") =>
                \E fails \in PassFails :
                   LET r == updateCertFilesAndRestartContainers(
                               disk, cfg, handlers[h].keyPemApp,
                               handlers[h].certPemApp, TRUE, fails)
                   IN  disk' = r.post /\ handlers'[h].ret = r.diskNeedsUpdate
          /\ (handlers[h].pc = "decide" /\ handlers'[h].pc = "done") =>
                IF handlers[h].ret
                THEN SchedulesOne("write")
                ELSE Len(jobs') = Len(jobs) /\ CancelsEveryPendingJob]_vars


(***************************************************************************)
(* postKeyAndCert (https_server_route.go:26-99).                           *)
(*                                                                         *)
(* A request body is described by what each decoding step makes of it:     *)
(*   envelopeJson  the body decodes as JSON into postPayload               *)
(*   base64        payload.Payload is raw URL base64                       *)
(*   bytes         the decoded bytes: "empty", "short" (fewer than the     *)
(*                 nonce size) or "full" (nonce and ciphertext)            *)
(*   sealedWith    the key the ciphertext was sealed with                  *)
(*   flip          the bit flipped after sealing: "none", or one in the    *)
(*                 "nonce" or in the "ciphertext"                          *)
(*   innerJson     the plaintext decodes as JSON into innerPayload         *)
(*   keyPem, certPem  the pair in the plaintext                            *)
(* A panic in the handler is recovered by net/http, which closes the       *)
(* connection without a response: status 0, aborted.                       *)
(***************************************************************************)
AppKey == "appKey"

RoutePaths == {"/legocerthubclient/api/v1/install", "/legocerthubclient/api/v1/install/"}

OnRoute(request) == request.path \in RoutePaths /\ request.method = "POST"

\* json.NewDecoder(r.Body).Decode(&payload) returns an error
envelopeDecodeFails(body) == ~body.envelopeJson

\* base64.RawURLEncoding.DecodeString(payload.Payload) returns an error
base64DecodeFails(body) == ~body.base64

\* bodyDecoded[:nonceSize] on fewer than nonceSize bytes: slice bounds out of range
nonceSplitPanics(body) == body.bytes \in {"empty", "short"}

cipherAEAD_Open_Unauthenticated(body) == body.sealedWith = AppKey

\* app.cipherAEAD.Open(nil, nonce, ciphertext, nil) returns the plaintext
cipherAEAD_Open(body) == body.sealedWith = AppKey /\ body.flip = "none"

\* json.Unmarshal(bodyDecrypted, &innerPayload) returns an error
innerUnmarshalFails(body) == ~body.innerJson

Answer(status, s, spawn) ==
    [status |-> status, aborted |-> FALSE, sc |-> s, spawn |-> spawn]

\* the handler on store s: the status written, the store afterwards, whether the
\* goroutine of line 85 is started
postKeyAndCert(s, request) ==
    LET body == request.body
        r == SafeCert_Update(s, body.keyPem, body.certPem)
    IN  IF ~OnRoute(request) THEN Answer(404, s, FALSE)
        ELSE IF envelopeDecodeFails(body) THEN Answer(401, s, FALSE)
        ELSE IF base64DecodeFails(body) THEN Answer(401, s, FALSE)
        ELSE IF nonceSplitPanics(body)
             THEN [status |-> 0, aborted |-> TRUE, sc |-> s, spawn |-> FALSE]
        ELSE IF ~cipherAEAD_Open(body) THEN Answer(401, s, FALSE)
        ELSE IF innerUnmarshalFails(body) THEN Answer(400, s, FALSE)
        ELSE IF r.err THEN Answer(400, r.sc, FALSE)
        ELSE Answer(200, r.sc, TRUE)

(***************************************************************************)
(* SpecPush: the https server of a running process answers requests, one   *)
(* after the other, and the goroutines of the accepted ones run.           *)
(***************************************************************************)
Paths == RoutePaths \cup {"/"}

Methods == {"POST", "GET"}

SealKeys == {AppKey, "otherKey"}

InnerPairs == PushPairs \cup {<<NoPem, NoPem>>}

\* a request the server of Cert Warden sends: sealed with the shared key, intact
ValidBody ==
    [envelopeJson |-> TRUE, base64 |-> TRUE, bytes |-> "full", sealedWith |-> AppKey,
     flip |-> "none", innerJson |-> TRUE, keyPem |-> "k1", certPem |-> "c1"]

Bodies ==
    {[ValidBody EXCEPT !.envelopeJson = FALSE], [ValidBody EXCEPT !.base64 = FALSE],
     [ValidBody EXCEPT !.bytes = "empty"], [ValidBody EXCEPT !.bytes = "short"]}
    \cup {[ValidBody EXCEPT !.sealedWith = k, !.flip = f, !.innerJson = j,
                            !.keyPem = p[1], !.certPem = p[2]] :
            k \in SealKeys, f \in {"none", "nonce", "ciphertext"}, j \in BOOLEAN,
            p \in InnerPairs}

\* every body on the route, and the push of the server on every path and method
Requests ==
    [path : RoutePaths, method : {"POST"}, body : Bodies]
    \cup [path : Paths, method : Methods, body : {ValidBody}]

\* a write job asleep until the window opens
PendingWriteJob == [NewJob("write") EXCEPT !.pc = "sleep", !.slept = TRUE]

\* what a request may change
PushFrame == <<sc, disk, pendingJobCancel, jobs>>

\* the server is up: the store holds (k2, c2) fetched on start, the directory
\* the older (k1, c1), and a write job waits for the window; or store and
\* directory agree and no job exists
InitPush ==
    /\ disk = [key |-> "k1", cert |-> "c1", pfx |-> PfxAbsent, legacy |-> PfxAbsent]
    /\ cfg = NoCfg
    /\ \/ sc = StoreHolding("k2", "c2") /\ jobs = <<PendingWriteJob>>
          /\ pendingJobCancel = 1
       \/ sc = StoreHolding("k1", "c1") /\ jobs = <<>> /\ pendingJobCancel = 0
    /\ upd = NoUpdate
    /\ rd = NoRead
    /\ pass = NoPass
    /\ handlers = <<>>
    /\ mainpc = "serving"
    /\ inWindow = FALSE
    /\ crashed = FALSE
    /\ window = NoWindow
    /\ clock = NoClock
    /\ wjob = NoWJob
    /\ req = NoReq
    /\ resp = NoResp
    /\ remote = NoRemote
    /\ docker = NoDocker
    /\ firstPass = NoPass

ServeRequest(request) ==
    LET r == postKeyAndCert(sc, request)
        handlersAfter == IF r.spawn THEN Append(handlers, NewHandler) ELSE handlers
    IN  /\ Running
        /\ Len(handlers) < MaxPushes
        /\ req' = request
        /\ sc' = r.sc
        /\ handlers' = handlersAfter
        /\ resp' = [status |-> r.status, aborted |-> r.aborted,
                    spawned |-> handlersAfter # handlers,
                    pre |-> PushFrame,
                    post |-> <<r.sc, disk, pendingJobCancel, jobs>>]
        /\ UNCHANGED <<disk, cfg, upd, rd, pass, pendingJobCancel, jobs, mainpc,
                       inWindow, crashed, window, clock, wjob, remote, docker, firstPass>>

NextPush ==
    \/ \E request \in Requests : ServeRequest(request)
    \/ \E h \in HandlerIds : HandlerBegin(h)
    \/ \E h \in HandlerIds, fails \in PassFails : HandlerEnd(h, fails)
    \/ \E h \in HandlerIds : HandlerDecide(h)

SpecPush == InitPush /\ [][NextPush]_vars

(***************************************************************************)
(* Claims about the push endpoint, checked under SpecPush                  *)
(***************************************************************************)
Served == req.path # "none"

\* the request is on the push route and is refused before any plaintext is used:
\* its envelope, its base64 text or its nonce and ciphertext do not decode
FailsBeforePlaintext ==
    /\ OnRoute(req)
    /\ \/ ~req.body.envelopeJson
       \/ ~req.body.base64
       \/ req.body.bytes # "full"
       \/ req.body.sealedWith # AppKey
       \/ req.body.flip # "none"

\* C17: a request on the push route that fails at the JSON decoding of the
\* envelope, the base64 decoding or the AEAD opening is answered 401, whichever
\* step failed: the caller cannot tell the failing step.
C17_UndecodableIsUnauthorized ==
    (Served /\ FailsBeforePlaintext) => (resp.status = 401 /\ ~resp.aborted)

\* a push of the server with one bit of its nonce or ciphertext flipped
TamperedPush ==
    /\ OnRoute(req)
    /\ req.body.envelopeJson /\ req.body.base64 /\ req.body.bytes = "full"
    /\ req.body.sealedWith = AppKey
    /\ req.body.flip # "none"

\* C18: a push with a flipped bit in its ciphertext is answered 401 and changes
\* neither the store, nor the files on disk, nor the pending job.
C18_TamperedPushChangesNothing ==
    (Served /\ TamperedPush) =>
        /\ resp.status = 401
        /\ resp.post = resp.pre
        /\ ~resp.spawned

C18_Witness ==
    /\ Served /\ TamperedPush
    /\ req.body.innerJson /\ X509KeyPair(req.body.certPem, req.body.keyPem)
    /\ req.body.keyPem # resp.pre[1].keyPem
    /\ resp.status = 401
    /\ resp.pre[3] = 1

\* the status the interface description gives for the request served
ExpectedStatus ==
    IF ~OnRoute(req) THEN 404
    ELSE IF FailsBeforePlaintext THEN 401
    ELSE IF ~req.body.innerJson THEN 400
    ELSE IF SafeCert_Update(resp.pre[1], req.body.keyPem, req.body.certPem).err THEN 400
    ELSE 200

\* C20: every request gets exactly one of 404 (wrong path or method), 401 (not
\* authenticated or not decryptable), 400 (decrypts, but bad inner JSON or a pair
\* that Update rejects) and 200, and only a 200 starts the file update goroutine.
C20_OneOutcomePerRequest ==
    Served =>
        /\ ~resp.aborted
        /\ resp.status = ExpectedStatus
        /\ resp.spawned <=> resp.status = 200


(***************************************************************************)
(* The downloads of the remote fetch (http_client.go, update_fetch.go)      *)
(*                                                                         *)
(* The server answers each download with a status and a body; status 0 is  *)
(* a request that failed without a response (httpClient.Do or the read of  *)
(* the body returned an error).                                            *)
(***************************************************************************)
StatusOK == 200

\* pem.Decode finds a block in a downloaded body
pemDecodes(body) == body \in {"k1", "k2", "kBad"} \/ HasPemBlock(body)

\* the mutant that lost the check of the status code
getPemWithApiKey_AnyStatus(response) ==
    IF response.status = 0 \/ ~pemDecodes(response.body)
    THEN [pem |-> NoPem, err |-> TRUE]
    ELSE [pem |-> response.body, err |-> FALSE]

getPemWithApiKey(response) ==
    IF response.status = 0
    THEN [pem |-> NoPem, err |-> TRUE]
    ELSE IF response.status # StatusOK
    THEN [pem |-> NoPem, err |-> TRUE]
    ELSE IF ~pemDecodes(response.body)
    THEN [pem |-> NoPem, err |-> TRUE]
    ELSE [pem |-> response.body, err |-> FALSE]

\* the two downloads of updateClientKeyAndCertchain: the pair handed to
\* updateClientCert, or "error" when the function returns before it
downloadKeyAndCert(server) ==
    IF getPemWithApiKey(server.key).err
    THEN <<"error", "error">>
    ELSE IF getPemWithApiKey(server.cert).err
    THEN <<"error", "error">>
    ELSE <<getPemWithApiKey(server.key).pem, getPemWithApiKey(server.cert).pem>>

(***************************************************************************)
(* SpecStartup: main() from configureApp to the start of the https server, *)
(* on every storage directory and against every server                     *)
(***************************************************************************)
KeyResponses ==
    {[status |-> 0, body |-> NoPem]}
        \cup [status : {StatusOK, 404}, body : {"k1", "k2", "kBad", "noPem"}]

CertResponses ==
    {[status |-> 0, body |-> NoPem]}
        \cup [status : {StatusOK, 404}, body : {"c1", "c2", "cExp", "noPem"}]

Servers == [key : KeyResponses, cert : CertResponses]

StartupDisks ==
    [key : {Absent, "k1", "kBad"}, cert : {Absent, "c1", "cExp", "noPem"},
     pfx : {PfxAbsent}, legacy : {PfxAbsent}]

InitStartup ==
    /\ sc = NewSafeCert
    /\ disk \in StartupDisks
    /\ cfg \in StartCfgs
    /\ upd = NoUpdate
    /\ rd = NoRead
    /\ pass = NoPass
    /\ pendingJobCancel = 0
    /\ jobs = <<>>
    /\ handlers = <<>>
    /\ mainpc = "configure"
    /\ inWindow = FALSE
    /\ crashed = FALSE
    /\ window = NoWindow
    /\ clock = NoClock
    /\ wjob = NoWJob
    /\ req = NoReq
    /\ resp = NoResp
    /\ remote \in Servers
    /\ docker = NoDocker
    /\ firstPass = NoPass

\* the fetch on start against the server
StartupFetch == MainFetch(downloadKeyAndCert(remote))

NextStartup ==
    \/ MainConfigure
    \/ StartupFetch
    \/ \E fails \in PassFails : MainReconcile(fails)

SpecStartup == InitStartup /\ [][NextStartup]_vars

(***************************************************************************)
(* Claims about the startup, checked under SpecStartup                     *)
(***************************************************************************)
\* the handshake callback would hand out a certificate that has not expired
ServesUsableCertificate(s) ==
    /\ SafeCert_TlsCertFunc(s) # NoCert
    /\ ParsesAsCert(SafeCert_TlsCertFunc(s)[2])
    /\ ~Expired(SafeCert_TlsCertFunc(s)[2])

\* main's step from the fetch on start to what follows it
StartupFetchStep == mainpc = "fetch" /\ mainpc' # "fetch"

\* a download failed, or the store rejected what was downloaded
InitialFetchFailed ==
    \/ downloadKeyAndCert(remote) = <<"error", "error">>
    \/ ~X509KeyPair(downloadKeyAndCert(remote)[2], downloadKeyAndCert(remote)[1])

\* C21: the process never starts serving TLS without a usable certificate.  After
\* the local load and the fetch on start, a store without a valid certificate
\* makes the process exit before the https server starts; a failed fetch on
\* start, with a valid unexpired local certificate loaded, is not fatal.
C21_NoServingWithoutCertificate ==
    /\ [](mainpc \in {"reconcile", "serving"} => ServesUsableCertificate(sc))
    /\ [][StartupFetchStep =>
            /\ ~ServesUsableCertificate(sc') => mainpc' = "fatal"
            /\ (ServesUsableCertificate(sc) /\ InitialFetchFailed) => mainpc' # "fatal"]_vars

\* the fetch failed, the local certificate is valid, the process serves
C21_Witness ==
    /\ mainpc = "serving"
    /\ remote.cert.status # StatusOK
    /\ disk.cert = "c1"
    /\ ServesUsableCertificate(sc)

\* the fetch on start returned no error
InitialFetchSucceeded == ~InitialFetchFailed

\* the go statement of a schedule call, written out
OneMoreJob(kind) == jobs' = Append(jobs, NewJob(kind))

\* main's step through the pass on start
StartupReconcileStep == mainpc = "reconcile" /\ mainpc' # "reconcile"

\* the step is one pass with onlyIfMissing = true on the store's pair, and a
\* write job is scheduled exactly when the pass returned true
StartupPassAndItsJob ==
    \E fails \in PassFails :
        LET r == updateCertFilesAndRestartContainers(disk, cfg, SafeCert_Read(sc)[1],
                                                     SafeCert_Read(sc)[2], TRUE, fails)
        IN  /\ disk' = r.post
            /\ crashed' = r.panicked
            /\ IF ~r.panicked /\ r.diskNeedsUpdate
               THEN OneMoreJob("write")
               ELSE jobs' = jobs

ShutdownSignalled == mainpc = "shutdown"

\* job j leaves its select through the timer case in this step
JobStarts(j) == JobStep(j, "sleep", "reconciling") \/ JobStep(j, "sleep", "fetching")

\* C23: after the shutdown signal any pending job is cancelled: no job remains
\* pending, and no scheduled job starts a fetch or a reconciliation after the
\* signal, whatever the interleaving with re-scheduling and push handling.
C23_ShutdownCancelsPendingJobs ==
    /\ [](ShutdownSignalled => \A j \in JobIds : ~JobPending(j))
    /\ [][ShutdownSignalled => \A j \in JobIds : ~JobStarts(j)]_vars

\* the body holds at least one well-formed PEM block
WellFormedPem(body) == body \notin {NoPem, "noPem"}

\* the server answered the download with 200 and PEM
DownloadOk(response) == response.status = StatusOK /\ WellFormedPem(response.body)

BothDownloadsOk == DownloadOk(remote.key) /\ DownloadOk(remote.cert)

\* C24: a remote fetch succeeds only if both downloads return HTTP 200 with a
\* body holding at least one well-formed PEM block; if the key download or the
\* cert download fails, Update is not called: the store is left as it was, and
\* main takes the branch of the failed fetch.
C24_FetchNeedsBothDownloads ==
    [][StartupFetchStep =>
        /\ mainpc' = "reconcile" => BothDownloadsOk
        /\ ~BothDownloadsOk =>
              /\ sc' = sc
              /\ mainpc' \in {"fatal", "serving"}
              /\ mainpc' = "serving" => OneMoreJob("fetch")]_vars

\* the key was downloaded, the cert download failed, the store keeps the local pair
C24_Witness ==
    /\ mainpc = "serving"
    /\ DownloadOk(remote.key)
    /\ remote.key.body = "k2"
    /\ ~DownloadOk(remote.cert)
    /\ SafeCert_Read(sc) = <<"k1", "c1">>

(***************************************************************************)
(* Claims about SafeCert's readers, checked under SpecStore                *)
(***************************************************************************)
\* this step is a call of HasValidTLSCertificate that returns
HasValidReturns == rd' # rd /\ rd'.op = "HasValidTLSCertificate"

\* C25: HasValidTLSCertificate returns false if the store holds no parsed
\* certificate or if the NotAfter of the leaf of the certificate it holds has
\* passed at the time of the call, and true otherwise.
C25_HasValidIffStoredAndUnexpired ==
    [][HasValidReturns =>
        rd'.valid = (/\ SafeCert_TlsCertFunc(sc) # NoCert
                     /\ ~Expired(SafeCert_TlsCertFunc(sc)[2]))]_vars

\* the store holds an expired certificate and the call returned false
C25_Witness ==
    /\ rd.op = "HasValidTLSCertificate"
    /\ ~rd.valid
    /\ SafeCert_TlsCertFunc(sc) = TlsCertOf("k1", "cExp")

\* this step is a call of Read that returns
ReadReturns == rd' # rd /\ rd'.op = "Read"

\* the arguments of the most recent Update call, the empty pair before the first
LastUpdatePair ==
    IF upd.n = 0 THEN <<NoPem, NoPem>> ELSE <<upd.keyPem, upd.certPem>>

WriteSelected(f) ==
    /\ f \in EnabledFiles
    /\ \/ FileTreatedAsMissing(pass.pre, f)
       \/ /\ FileStale(pass.pre, f)
          /\ \/ ~pass.onlyIfMissing
             \/ \E g \in EnabledFiles : FileTreatedAsMissing(pass.pre, g)

\* what a successful write of file f leaves in it
WrittenContent(f) ==
    CASE f = "key" -> <<pass.keyPemApp, pass.keyPemApp>>
      [] f = "cert" -> <<pass.certPemApp, pass.certPemApp>>
      [] OTHER -> <<pass.keyPemApp, pass.certPemApp>>

\* C26: in one pass each file write is attempted on its own: whatever subset of
\* the writes fails, every other file the write decision selected is still
\* attempted, what was written stays written, and the pass returns true.
C26_WritesAreIndependent ==
    (pass.n > 0 /\ pass.failed # {}) =>
        /\ \A f \in Files : WriteSelected(f) => f \in pass.attempted
        /\ \A f \in pass.attempted \ pass.failed :
              FileContent(pass.post, f) = WrittenContent(f)
        /\ pass.diskNeedsUpdate

\* the write of key.pem failed, certchain.pem and the PKCS12 file were written
C26_Witness ==
    /\ pass.n > 0
    /\ pass.failed = {"key"}
    /\ pass.wrote = {"cert", "pfx"}
    /\ pass.pre.cert # pass.certPemApp
    /\ pass.post.cert = pass.certPemApp
    /\ pass.diskNeedsUpdate

(***************************************************************************)
(* SpecContainers: one pass with containers configured.  Container i is    *)
(* the i-th name of DockerContainersToRestart; cfails is the set of        *)
(* containers whose ContainerRestart / ContainerStop returns an error.     *)
(***************************************************************************)
MaxContainerNames == 2

\* the mutant whose loop ends at the first container that fails
restartOrStopDockerContainers_StopAtFailure(c, cfails) ==
    [calls |-> [i \in 1..c.containers |->
                    IF \E k \in cfails : k < i THEN 0 ELSE 1],
     op |-> IF c.DockerStopOnly THEN "stop" ELSE "restart",
     failed |-> cfails \cap (1..c.containers)]

\* one goroutine per configured container, each with one call of the API:
\* how often each container is called, with which operation, and which calls
\* return an error (logged by the goroutine)
restartOrStopDockerContainers(c, cfails) ==
    [calls |-> [i \in 1..c.containers |-> 1],
     op |-> IF c.DockerStopOnly THEN "stop" ELSE "restart",
     failed |-> cfails \cap (1..c.containers)]

ContainerStores == {StoreHolding("k1", "c1"), StoreHolding("k2", "c2")}

ContainerDisks ==
    [key : {Absent, "k1"}, cert : {Absent, "c1", "c2"},
     pfx : {PfxAbsent}, legacy : {PfxAbsent, <<"k1", "c1">>}]

ContainerCfgs ==
    [PfxCreate : {FALSE}, PfxLegacyCreate : BOOLEAN,
     containers : 0..MaxContainerNames, DockerStopOnly : BOOLEAN]

ContainerPassFails == {{}, {"key"}, {"key", "cert", "legacy"}}

InitContainers ==
    /\ sc \in ContainerStores
    /\ disk \in ContainerDisks
    /\ cfg \in ContainerCfgs
    /\ upd = NoUpdate
    /\ rd = NoRead
    /\ pass = NoPass
    /\ pendingJobCancel = 0
    /\ jobs = <<>>
    /\ handlers = <<>>
    /\ mainpc = "reconcile"
    /\ inWindow = FALSE
    /\ crashed = FALSE
    /\ window = NoWindow
    /\ clock = NoClock
    /\ wjob = NoWJob
    /\ req = NoReq
    /\ resp = NoResp
    /\ remote = NoRemote
    /\ docker = NoDocker
    /\ firstPass = NoPass

\* the pass and the goroutines of restartOrStopDockerContainers it starts
ReconcileContainers(onlyIfMissing, fails, cfails) ==
    LET r == updateCertFilesAndRestartContainers(disk, cfg, SafeCert_Read(sc)[1],
                                                 SafeCert_Read(sc)[2], onlyIfMissing, fails)
    IN  /\ pass.n = 0
        /\ pass' = PassRecord(r, fails)
        /\ disk' = r.post
        /\ crashed' = r.panicked
        /\ docker' = IF r.actions > 0
                     THEN restartOrStopDockerContainers(cfg, cfails)
                     ELSE NoDocker
        /\ UNCHANGED <<sc, cfg, upd, rd, pendingJobCancel, jobs, handlers, mainpc,
                       inWindow, window, clock, wjob, req, resp, remote, firstPass>>

NextContainers ==
    \E onlyIfMissing \in BOOLEAN, fails \in ContainerPassFails,
       cfails \in SUBSET (1..MaxContainerNames) :
        ReconcileContainers(onlyIfMissing, fails, cfails)

SpecContainers == InitContainers /\ [][NextContainers]_vars

\* what the pass returns, from what it found, attempted and wrote
ExpectedReturn ==
    \/ pass.failed # {}
    \/ /\ pass.wrote = {}
       /\ PemStale(pass.pre, "key") \/ PemStale(pass.pre, "cert")

\* C27: a pass invokes the container action (restart, or stop in stop-only mode)
\* exactly once for each configured container if at least one file was written
\* in the pass, and not at all if none was; a failing container action affects
\* neither the other containers nor what the pass returns.
C27_ContainerActionOncePerContainer ==
    pass.n > 0 =>
        /\ pass.wrote # {} =>
              /\ DOMAIN docker.calls = 1..cfg.containers
              /\ \A i \in 1..cfg.containers : docker.calls[i] = 1
              /\ cfg.containers > 0 =>
                    docker.op = (IF cfg.DockerStopOnly THEN "stop" ELSE "restart")
        /\ pass.wrote = {} => docker = NoDocker
        /\ pass.diskNeedsUpdate = ExpectedReturn

\* the action on the first of two containers failed, the second was still
\* stopped, and the pass, which wrote every file it attempted, returned false
C27_Witness ==
    /\ pass.n > 0
    /\ cfg.containers = 2
    /\ cfg.DockerStopOnly
    /\ pass.wrote # {}
    /\ pass.failed = {}
    /\ docker.failed = {1}
    /\ docker.calls[2] = 1
    /\ ~pass.diskNeedsUpdate

\* the PKCS12 files that are enabled and present before the pass
PresentPfxFiles ==
    {f \in {"pfx", "legacy"} : f \in EnabledFiles /\ ~FileAbsent(pass.pre, f)}

BothPemPresentAndFresh ==
    pass.pre.key = pass.keyPemApp /\ pass.pre.cert = pass.certPemApp

\* C29: a PKCS12 file is treated as stale exactly when key.pem or certchain.pem
\* on disk is stale: a pass without onlyIfMissing rewrites a present, enabled
\* PKCS12 file if and only if one of the PEM files is stale, and while both PEM
\* files are present and fresh no pass rewrites it, whatever its content.
C29_PfxStaleIffPemStale ==
    /\ (PassReturned /\ ~pass.onlyIfMissing) =>
          \A f \in PresentPfxFiles :
              f \in pass.attempted <=>
                  (PemStale(pass.pre, "key") \/ PemStale(pass.pre, "cert"))
    /\ (pass.n > 0 /\ BothPemPresentAndFresh) =>
          \A f \in PresentPfxFiles :
              /\ f \notin pass.attempted
              /\ FileContent(pass.post, f) = FileContent(pass.pre, f)

\* a PKCS12 file with foreign content next to fresh PEM files was left alone
C29_Witness ==
    /\ pass.n > 0
    /\ ~pass.onlyIfMissing
    /\ BothPemPresentAndFresh
    /\ cfg.PfxCreate
    /\ pass.pre.pfx = PfxForeign
    /\ pass.post.pfx = PfxForeign

(***************************************************************************)
(* Claims about what reaches the disk, checked under Spec                  *)
(***************************************************************************)
\* the pairs that SafeCert.Update accepts as parsing and matching
AcceptedPairs ==
    {p \in (KeyPems \cup {NoPem}) \X (CertPems \cup {NoPem}) : X509KeyPair(p[2], p[1])}

\* C30: only validated material reaches the disk: whatever a pass writes to
\* key.pem and certchain.pem is the key and the cert of a pair that Update
\* accepted; a pair that Update rejected is never written by a later pass.
C30_OnlyAcceptedPairsReachDisk ==
    [][disk' # disk =>
        \E p \in AcceptedPairs :
            /\ disk'.key # disk.key => disk'.key = p[1]
            /\ disk'.cert # disk.cert => disk'.cert = p[2]]_vars

(***************************************************************************)
(* Claims about the goroutines of pushes and fetch jobs, checked under     *)
(* Spec                                                                    *)
(***************************************************************************)
\* push goroutine h takes its else branch in this step and the handle it calls
\* belongs to a job that is pending
HandlerCancelsPendingJob(h) ==
    /\ handlers[h].pc = "decide"
    /\ handlers'[h].pc = "done"
    /\ ~handlers[h].ret
    /\ \E j \in JobIds : JobPending(j) /\ jobs'[j].canceled

\* key.pem and certchain.pem hold what Read() returns now
DiskHoldsStoreMaterial ==
    disk.key = SafeCert_Read(sc)[1] /\ disk.cert = SafeCert_Read(sc)[2]

\* C31: the cancel-pending step of a push goroutine cancels a job only when the
\* disk is up to date with the store's material at the moment of the cancel:
\* with two overlapping pushes it never cancels a job that was scheduled for
\* material newer than the pass it is acting on.
C31_HandlerCancelsOnlyWhenDiskIsCurrent ==
    [][\A h \in HandlerIds : HandlerCancelsPendingJob(h) => DiskHoldsStoreMaterial]_vars

\* job j calls the old cancel handle in this step
JobCancelsOld(j) == JobStep(j, "start", "armed")

\* C32: a pending write job is never cancelled by a fetch job: once material of
\* the store waits for the file update window, a fetch job that was past its
\* sleep and then fails cannot supersede the write job and put the write
\* behind further fetch attempts.
C32_FetchJobNeverCancelsWriteJob ==
    [][\A j \in JobIds :
         (JobCancelsOld(j) /\ jobs[j].kind = "fetch") =>
            \A i \in JobIds :
                (JobPending(i) /\ jobs[i].kind = "write") => ~jobs'[i].canceled]_vars

(***************************************************************************)
(* SpecRetry: the chain of fetch jobs after a failed fetch on start.  The  *)
(* server fails at first and recovers for good at some moment; no push     *)
(* arrives, no shutdown is signalled and every write succeeds.  The        *)
(* goroutines are scheduled fairly, the clock goes on, and a timer that    *)
(* can fire again and again does fire.                                     *)
(***************************************************************************)
FailingServers ==
    {[key |-> [status |-> 0, body |-> NoPem], cert |-> [status |-> 0, body |-> NoPem]],
     [key |-> [status |-> StatusOK, body |-> "k2"], cert |-> [status |-> 404, body |-> "c2"]],
     [key |-> [status |-> StatusOK, body |-> "noPem"], cert |-> [status |-> StatusOK, body |-> "c2"]]}

RecoveredServers ==
    {[key |-> [status |-> StatusOK, body |-> p[1]], cert |-> [status |-> StatusOK, body |-> p[2]]] :
        p \in RemotePairs}

InitRetry ==
    /\ sc = NewSafeCert
    /\ disk = [key |-> "k1", cert |-> "c1", pfx |-> PfxAbsent, legacy |-> PfxAbsent]
    /\ cfg \in StartCfgs
    /\ upd = NoUpdate
    /\ rd = NoRead
    /\ pass = NoPass
    /\ pendingJobCancel = 0
    /\ jobs = <<>>
    /\ handlers = <<>>
    /\ mainpc = "configure"
    /\ inWindow \in BOOLEAN
    /\ crashed = FALSE
    /\ window = NoWindow
    /\ clock = NoClock
    /\ wjob = NoWJob
    /\ req = NoReq
    /\ resp = NoResp
    /\ remote \in FailingServers
    /\ docker = NoDocker
    /\ firstPass = NoPass

\* from this moment on every download is answered with a valid matching pair
ServerRecovers ==
    /\ mainpc = "serving"
    /\ remote \in FailingServers
    /\ remote' \in RecoveredServers
    /\ UNCHANGED <<sc, disk, cfg, upd, rd, pass, pendingJobCancel, jobs, handlers, mainpc,
                   inWindow, crashed, window, clock, wjob, req, resp, docker, firstPass>>

\* the fetch of fetch job j against the server; the failures of the server
\* are counted by the jobs they start and end before the last two jobs
RetryFetchEnd(j) ==
    /\ remote \in FailingServers => Len(jobs) < MaxJobs - 1
    /\ JobFetchEnd(j, downloadKeyAndCert(remote))

\* the pass of write job j, every write succeeding
RetryReconcileEnd(j) == JobReconcileEnd(j, {})

NextRetry ==
    \/ MainConfigure
    \/ StartupFetch
    \/ ServerRecovers
    \/ ClockTick
    \/ \E j \in JobIds : JobCancelOld(j)
    \/ \E j \in JobIds : JobSetPending(j)
    \/ \E j \in JobIds : JobWake(j)
    \/ \E j \in JobIds : RetryFetchEnd(j)
    \/ \E j \in JobIds : RetryReconcileEnd(j)

FairRetry ==
    /\ WF_vars(MainConfigure)
    /\ WF_vars(StartupFetch)
    /\ WF_vars(ServerRecovers)
    /\ WF_vars(ClockTick)
    /\ \A j \in 1..MaxJobs :
          /\ WF_vars(j \in JobIds /\ JobCancelOld(j))
          /\ WF_vars(j \in JobIds /\ JobSetPending(j))
          /\ SF_vars(j \in JobIds /\ JobWake(j))
          /\ WF_vars(j \in JobIds /\ RetryFetchEnd(j))
          /\ WF_vars(j \in JobIds /\ RetryReconcileEnd(j))

SpecRetry == InitRetry /\ [][NextRetry]_vars /\ FairRetry

\* a fetch job whose fetch returned without an error
FetchJobSucceeded(j) ==
    jobs[j].kind = "fetch" /\ jobs[j].pc = "done" /\ ~jobs[j].ret

\* C33: after a failed fetch on start, if from some moment on every fetch gets a
\* valid matching pair, with no shutdown and no push, the chain of fetch jobs
\* eventually fetches successfully, a write job is scheduled after that fetch,
\* and, the writes succeeding, key.pem and certchain.pem eventually hold the
\* store's material and keep it.
C33_RetryChainReachesDisk ==
    /\ <>(\E j \in JobIds : FetchJobSucceeded(j))
    /\ [](\A j \in 1..MaxJobs :
            (j \in JobIds /\ FetchJobSucceeded(j)) =>
                (j + 1 \in JobIds /\ jobs[j + 1].kind = "write"))
    /\ <>[](DiskHoldsStoreMaterial /\ StoreHoldsAcceptedPair
              /\ \E p \in RemotePairs : SafeCert_Read(sc) = p
              /\ \E j \in JobIds : jobs[j].kind = "write" /\ jobs[j].pc = "done")

\* one fetch job failed, the next one fetched the new pair, the write job wrote it
C33_Witness ==
    /\ \E j \in JobIds : jobs[j].kind = "fetch" /\ jobs[j].pc = "done" /\ jobs[j].ret
    /\ \E j \in JobIds : FetchJobSucceeded(j)
    /\ \E j \in JobIds : jobs[j].kind = "write" /\ jobs[j].pc = "done"
    /\ SafeCert_Read(sc) = <<"k2", "c2">>
    /\ DiskHoldsStoreMaterial

(***************************************************************************)
(* SpecRepeat: two passes in a row on the same store, the second one on    *)
(* the directory the first one left                                        *)
(***************************************************************************)
RepeatFails == {{}, {"key"}}

RepeatAgainFails == {{}, Files}

InitRepeat == InitReconcile

\* the second pass, right after the first
ReconcileAgain(onlyIfMissing, fails) ==
    LET r == updateCertFilesAndRestartContainers(disk, cfg, SafeCert_Read(sc)[1],
                                                 SafeCert_Read(sc)[2], onlyIfMissing, fails)
    IN  /\ pass.n = 1
        /\ ~crashed
        /\ firstPass' = pass
        /\ pass' = PassRecord(r, fails)
        /\ disk' = r.post
        /\ crashed' = r.panicked
        /\ UNCHANGED <<sc, cfg, upd, rd, pendingJobCancel, jobs, handlers, mainpc,
                       inWindow, window, clock, wjob, req, resp, remote, docker>>

NextRepeat ==
    \/ \E onlyIfMissing \in BOOLEAN, fails \in RepeatFails : Reconcile(onlyIfMissing, fails)
    \/ \E onlyIfMissing \in BOOLEAN, fails \in RepeatAgainFails :
          ReconcileAgain(onlyIfMissing, fails)

SpecRepeat == InitRepeat /\ [][NextRepeat]_vars

\* the first of the two passes returned false and none of its writes failed
FirstPassLeftDiskSynchronized ==
    /\ pass.n = 2
    /\ ~firstPass.panicked
    /\ firstPass.failed = {}
    /\ ~firstPass.diskNeedsUpdate

\* C34: a pass is idempotent on a synchronized disk: after a pass in which no
\* write failed and which returned false, a pass repeated at once (with either
\* value of onlyIfMissing, the store and the disk unchanged) writes no file,
\* triggers no container action and returns false.
C34_RepeatedPassDoesNothing ==
    FirstPassLeftDiskSynchronized =>
        /\ pass.attempted = {}
        /\ pass.post = pass.pre
        /\ pass.actions = 0
        /\ ~pass.panicked
        /\ ~pass.diskNeedsUpdate

\* the first pass wrote key.pem and certchain.pem and restarted the container,
\* the second pass, without onlyIfMissing, did nothing
C34_Witness ==
    /\ FirstPassLeftDiskSynchronized
    /\ {"key", "cert"} \subseteq firstPass.wrote
    /\ firstPass.actions = 1
    /\ ~pass.onlyIfMissing
    /\ pass.attempted = {}
    /\ pass.actions = 0

(***************************************************************************)
(* Claims about what a pass returns, checked under SpecReconcile           *)
(***************************************************************************)
\* C35: from every directory (any combination of absent, stale and fresh
\* files), if a pass returns false then afterwards every enabled file
\* corresponds to the store's material: key.pem and certchain.pem are equal to
\* it and each enabled PKCS12 file was derived from it.
C35_FalseMeansDiskSynchronized ==
    (PassReturned /\ ~pass.diskNeedsUpdate) =>
        \A f \in EnabledFiles : FileContent(pass.post, f) = WrittenContent(f)

\* C36: a pass with onlyIfMissing = false returns true if and only if at least
\* one write, or one encoding of a PKCS12 file, failed in the pass; so a write
\* job re-schedules itself only after a failure.
C36_FullPassTrueIffFailure ==
    (pass.n > 0 /\ ~pass.onlyIfMissing) =>
        (pass.diskNeedsUpdate <=> pass.failed # {})

\* the PEM files were written, the PKCS12 file failed, the pass returned true
C36_Witness ==
    /\ pass.n > 0
    /\ ~pass.onlyIfMissing
    /\ pass.failed = {"pfx"}
    /\ {"key", "cert"} \subseteq pass.wrote
    /\ pass.diskNeedsUpdate

\* the pass found a certchain.pem that differs from the store's cert and holds
\* no PEM block or no parseable certificate
PassFoundUndecodableCert ==
    /\ pass.n > 0
    /\ certFileUpdated(pass.pre, pass.certPemApp)
    /\ ~HasPemBlock(pass.pre.cert) \/ ~ParsesAsCert(pass.pre.cert)

\* C37: a pass completes and returns a result whatever certchain.pem holds: a
\* file that differs from the store's cert and has no decodable PEM block or no
\* parseable certificate is treated as not existing (its write is attempted) and
\* the pass does not crash.
C37_UndecodableCertIsTreatedAsMissing ==
    PassFoundUndecodableCert =>
        /\ ~pass.panicked
        /\ "cert" \in pass.attempted

\* a pass with onlyIfMissing found a certchain.pem that differs from the store's
\* cert and whose certificate is expired
StartupPassFoundExpiredCert ==
    /\ PassReturned
    /\ pass.onlyIfMissing
    /\ pass.pre.cert \notin {Absent, Unreadable}
    /\ pass.pre.cert # pass.certPemApp
    /\ Expired(pass.pre.cert)

ShortPayloadPush ==
    /\ OnRoute(req)
    /\ req.body.envelopeJson /\ req.body.base64
    /\ req.body.bytes \in {"empty", "short"}

\* C39: a push whose decoded payload is shorter than the nonce of the AEAD,
\* the empty payload included, is answered 401 like any other payload that
\* does not decrypt, and changes neither the store nor the scheduler.
C39_ShortPayloadIsUnauthorized ==
    (Served /\ ShortPayloadPush) =>
        /\ ~resp.aborted
        /\ resp.status = 401
        /\ resp.post = resp.pre
        /\ ~resp.spawned

(***************************************************************************)
(* The certificate of the handshakes, checked under SpecStore              *)
(***************************************************************************)
\* the most recent Update call accepted its pair and installed it
UpdateAccepted == upd.n > 0 /\ upd.updated

\* the function of TlsCertFunc returns in this step
HandshakeReturns == rd' # rd /\ rd'.op = "TlsCertFunc"

\* C40: from the first Update that accepts a pair on, the certificate handed to
\* a TLS handshake is never absent and is always the parsed form of a pair that
\* an Update accepted, whatever Update calls fail later: an accepting Update
\* installs the parsed form of its pair, and from then on the certificate only
\* changes to the parsed form of the pair of another accepting Update.
C40_HandshakeCertificateStaysAccepted ==
    /\ [](UpdateAccepted =>
            /\ X509KeyPair(upd.certPem, upd.keyPem)
            /\ sc.cert = TlsCertOf(upd.keyPem, upd.certPem))
    /\ [][sc.cert # NoCert =>
            /\ sc'.cert # NoCert
            /\ X509KeyPair(sc'.cert[2], sc'.cert[1])
            /\ sc'.cert # sc.cert =>
                    (upd'.updated /\ sc'.cert = TlsCertOf(upd'.keyPem, upd'.certPem))
            /\ HandshakeReturns => rd'.cert = sc.cert]_vars

\* an Update accepted a pair, the next Update was rejected and left its PEM in
\* the store, and the handshake is handed the certificate of the accepted pair
C40_Witness ==
    /\ upd.n = 2
    /\ upd.err
    /\ X509KeyPair(upd.prevCertPem, upd.prevKeyPem)
    /\ sc.keyPem = upd.keyPem /\ sc.certPem = upd.certPem
    /\ rd.op = "TlsCertFunc"
    /\ rd.cert = TlsCertOf(upd.prevKeyPem, upd.prevCertPem)
====
